---- MODULE Spec2Model ----
(***************************************************************************)
(* Response orchestration of the WhatsApp LLM chatbot: the chat middleware *)
(* (routing), the two-pass tool-augmented flow, the parallel tool engine   *)
(* with its timeout race, the tool registry with per-(tool, caller) rate   *)
(* limits, the retrieval-augmented flow and the per-user conversation      *)
(* history.                                                                *)
(*                                                                         *)
(* JavaScript runs one continuation at a time: every action below is the   *)
(* code that runs between two suspension points (await) of one handler.    *)
(***************************************************************************)
EXTENDS Integers, Sequences, FiniteSets, TLC

(***************************************************************************)
(* Bounds of the model.                                                    *)
(***************************************************************************)
\* messages delivered by the chat transport in one behaviour
MaxMsgs == 2
\* messages delivered in one behaviour of SpecRate
MaxRateMsgs == 3
\* handlers of the chat middleware that can be suspended at the same time
MaxInFlight == 2
\* tool calls in one LLM response
MaxCalls == 2
\* the clock (Date.now()) runs from 0 to MaxTime
MaxTime == 3
\* rateLimit.maxCalls of the rate-limited tool descriptors of the model
RateMaxCalls == 2
\* rateLimit.windowMs of the rate-limited tool descriptors, in clock units
RateWindowMs == 2
\* exchanges appended in one behaviour of SpecHistory
MaxAppends == 12
\* calls of searchSimilarContent in one behaviour
MaxSearches == 2
\* rows one source of the search answers with, and entries of one corpus
MaxRows == 2

\* documents handed to processPDF in a behaviour
MaxIngests == 2

\* entries inserted into embeddingCache, and calls of cleanCache
MaxInserts == 1003

MaxSweeps == 2

\* calls of processDocument, and chunks of one document
MaxDocuments == 3

MaxChunks == 2

\* calls of the methods of the MCP service
MaxMcpCalls == 4

\* passes of the loop of createChunks that are followed
MaxPasses == 8

\* characters of a text handed to createChunks
MaxTextLen == 8

\* config.rateLimit.maxRequests (BOT_RATE_LIMIT_MAX_REQUESTS) of the model;
\* its window (BOT_RATE_LIMIT_WINDOW_MS) is longer than a behaviour
BotRateLimitMaxRequests == 1

(***************************************************************************)
(* Program constants.                                                      *)
(***************************************************************************)
\* updateConversationHistory: const maxHistoryLength = 20
maxHistoryLength == 20
\* getConversationHistory: const maxHistoryLength = 10
maxHistoryLengthRead == 10

Users == {"u1", "u2"}

\* Tool modules of the tools directory: weather declares a rateLimit, time
\* declares none.
LocalToolNames == {"weather", "time"}
\* Tools a connected MCP server registers (getMockToolsForServer).
McpToolNames == {"read_file"}
\* Names an LLM response may carry: the tools above and one no registry has.
CallNames == LocalToolNames \cup McpToolNames \cup {"nosuch"}

HasRateLimit(name) == name = "weather"

(***************************************************************************)
(* Inbound message texts, and what the detectors of chatbot.ts answer on   *)
(* each of them (substring and regular-expression tests).                  *)
(***************************************************************************)
Texts ==
  { "", "/help", "what tools do you have", "what tools can calculate 2+2",
    "Calculate 12 * 8", "find the weather and time in Paris, then generate a uuid",
    "explain the refund policy", "hello" }

shouldProcessMessage(text) == text \notin {"", "/help"}

isToolQuery(text) ==
  text \in {"what tools do you have", "what tools can calculate 2+2"}

isMathQuery(text) ==
  text \in {"what tools can calculate 2+2", "Calculate 12 * 8"}

isWeatherQuery(text) ==
  text = "find the weather and time in Paris, then generate a uuid"

isSearchQuery(text) ==
  text = "find the weather and time in Paris, then generate a uuid"

isTimeQuery(text) ==
  text = "find the weather and time in Paris, then generate a uuid"

isUUIDQuery(text) ==
  text = "find the weather and time in Paris, then generate a uuid"

needsToolSupport(text) ==
  \/ isMathQuery(text)
  \/ isWeatherQuery(text)
  \/ isSearchQuery(text)
  \/ isTimeQuery(text)
  \/ isUUIDQuery(text)

\* RAGService.shouldUseRAG: a keyword of ragKeywords, or more than 100 characters
shouldUseRAG(text) ==
  text \in {"explain the refund policy",
            "find the weather and time in Paris, then generate a uuid"}

(***************************************************************************)
(* Texts sent to the user.  A response content is a sequence of parts.     *)
(***************************************************************************)
LLMAnswer == "llm answer"
StaticSummary == "Available Tools / Core Capabilities"
FallbackThink == "I need a moment to think. Please try again."
FallbackIssue == "I encountered an issue processing your request. Please try again."
FallbackError == "Sorry, I encountered an error processing your message. Please try again."
ToolsUsedNote == "Used tools"
SourcesNote == "Sources used"
DocOkNote == "Document processed successfully"
DocFailedNote == "Document processing failed: "

Fallbacks == {FallbackThink, FallbackIssue, FallbackError}

\* message texts of internal errors
ErrParser == "PDF parsing failed"
ErrUnsupported == "Unsupported file type"
ErrStorage == "Failed to store document"
ErrEmbedding == "Failed to generate embeddings"
InternalErrors == {ErrParser, ErrUnsupported, ErrStorage, ErrEmbedding}

NoResp == <<>>

(***************************************************************************)
(* State.                                                                  *)
(***************************************************************************)
VARIABLES
  env,                  \* what the environment of the behaviour may do
  received,             \* messages delivered so far
  now,                  \* Date.now()
  config,               \* ChatbotConfig and the services initializeServices built
  tools,                \* ToolManager.tools: name -> LoadedTool
  rateLimitTracking,    \* ToolManager.rateLimitTracking: <<tool, user>> -> timestamps
  conversationHistory,  \* Chatbot.conversationHistory: user -> turns
  msgs,                 \* the handlers of the messages the transport delivered
  background,           \* tool executions abandoned by a timeout, still running
  admitLog,             \* history: <<tool, user>> -> times of all admitted calls
  decisions,            \* history: the answers checkRateLimit gave in the last batch
  appended,             \* history: user -> every turn ever appended, in order
  search,               \* the call of VectorService.searchSimilarContent under way
  ingest,               \* the call of EnhancedPDFService.processPDF under way
  chunker,              \* the last call of EnhancedPDFService.createChunks
  caches,               \* RAGService.searchCache and embeddingCache
  boot,                 \* where the constructor and initializeServices stand
  docs,                 \* RAGService.processDocument and the rows of the store
  mcp                   \* MCPService: servers, connectedServers, tools

vars ==
  << env, received, now, config, tools, rateLimitTracking, conversationHistory, msgs,
     background, admitLog, decisions, appended, search, ingest, chunker,
     caches, boot, docs, mcp >>

MsgIds == 1..MaxInFlight

Turn(role, content) == [role |-> role, content |-> content]

(***************************************************************************)
(* ToolManager (src/tools/index.ts).                                       *)
(***************************************************************************)
\* the key of one caller's timestamps of one tool
TrackKey(toolName, userId) == <<toolName, userId>>

\* validCalls with a window closed at its far end: a call made exactly
\* windowMs ago still counts
validCallsClosedWindow(userCalls, t, windowMs) ==
  SelectSeq(userCalls, LAMBDA timestamp : t - timestamp <= windowMs)

\* timestamps of calls still inside the window at time t
validCalls(userCalls, t, windowMs) ==
  SelectSeq(userCalls, LAMBDA timestamp : t - timestamp < windowMs)

\* checkRateLimit: the answer and the caller's timestamps after it
checkRateLimit(userCalls, t, maxCalls, windowMs) ==
  LET valid == validCalls(userCalls, t, windowMs)
  IN  IF Len(valid) >= maxCalls
        THEN [ok |-> FALSE, calls |-> userCalls]
        ELSE [ok |-> TRUE, calls |-> Append(valid, t)]

\* ToolManager.getTool: the tool of that name, whether enabled or not
getTool(reg, name) == name \in DOMAIN reg

\* ToolManager.getAvailableTools and MCPService.getAvailableTools
getAvailableTools(reg) == {n \in DOMAIN reg : reg[n].enabled}

availableTools(reg, cfg) ==
  getAvailableTools(reg) \cup (IF cfg.hasMcp THEN cfg.mcpTools ELSE {})

(***************************************************************************)
(* The synchronous part of one dispatch of executeToolCalls: up to the     *)
(* first await of ToolManager.executeTool or MCPService.executeTool.       *)
(*   kind: local | mcp      execute was started                            *)
(*         notfound | disabled | ratelimited    answered at once           *)
(***************************************************************************)
DispatchKind(reg, cfg, track, name, userId, t) ==
  IF getTool(reg, name)
    THEN IF ~reg[name].enabled
           THEN "disabled"
           ELSE IF /\ HasRateLimit(name)
                   /\ ~checkRateLimit(track[TrackKey(name, userId)], t,
                                      RateMaxCalls, RateWindowMs).ok
                  THEN "ratelimited"
                  ELSE "local"
    ELSE IF cfg.hasMcp
           THEN IF name \in cfg.mcpTools THEN "mcp" ELSE "notfound"
           ELSE "notfound"

\* rateLimitTracking after that dispatch
DispatchTrack(reg, cfg, track, name, userId, t) ==
  IF getTool(reg, name) /\ reg[name].enabled /\ HasRateLimit(name)
    THEN [track EXCEPT ![TrackKey(name, userId)] =
            checkRateLimit(track[TrackKey(name, userId)], t,
                           RateMaxCalls, RateWindowMs).calls]
    ELSE track

\* a call that is started only when the call before it has completed
NewCallAwaited(id, name, kind) ==
  [ id   |-> id,
    name |-> name,
    kind |-> kind,
    st   |-> IF id > 1 THEN "unstarted"
             ELSE IF kind \in {"local", "mcp"} THEN "pending" ELSE "settled",
    out  |-> "none" ]

\* A tool call of a batch.  st: pending | settled | timedout.
\* out: what execute did: none | ok | fail | raise.
NewCall(id, name, kind) ==
  [ id   |-> id,
    name |-> name,
    kind |-> kind,
    st   |-> IF kind \in {"local", "mcp"} THEN "pending" ELSE "settled",
    out  |-> "none" ]

\* toolCalls.map(async ...) runs the dispatches one after the other, in input
\* order: the calls dispatched and the tracking after names[k..].
RECURSIVE DispatchAll(_, _, _, _, _, _, _, _)
DispatchAll(reg, cfg, track, names, userId, t, k, acc) ==
  IF k > Len(names)
    THEN [calls |-> acc, track |-> track]
    ELSE DispatchAll(reg, cfg,
                     DispatchTrack(reg, cfg, track, names[k], userId, t),
                     names, userId, t, k + 1,
                     Append(acc, NewCall(k, names[k],
                              DispatchKind(reg, cfg, track, names[k], userId, t))))

(***************************************************************************)
(* executeToolCalls (src/bot/chatbot.ts): the race of every dispatch with  *)
(* its 30 s timer, and Promise.all over the races.                         *)
(***************************************************************************)
\* executionPromise without its try/catch: a raise of execute rejects it
ExecutionPromiseUncaught(call) ==
  IF call.out = "raise" THEN "rejected" ELSE "fulfilled"

\* executionPromise of a settled call: its try/catch turns every raise of
\* execute, and every "not found", into a result, so it is always fulfilled
ExecutionPromise(call) == "fulfilled"

\* Promise.race([executionPromise, timeoutPromise])
RacePromise(call) ==
  CASE call.st = "pending"  -> "pending"
    [] call.st = "timedout" -> "rejected"
    [] OTHER                -> ExecutionPromise(call)

\* Promise.all(toolPromises): rejected as soon as one race is rejected,
\* fulfilled once every race is fulfilled
PromiseAll(calls) ==
  IF \E i \in DOMAIN calls : RacePromise(calls[i]) = "rejected"
    THEN "rejected"
    ELSE IF \A i \in DOMAIN calls : RacePromise(calls[i]) = "fulfilled"
           THEN "fulfilled"
           ELSE "pending"

\* the ToolCallResult of a settled call: success is what execute returned,
\* and false for a call answered at once or whose execute raised
ToolCallResult(call) ==
  [toolCallId |-> call.id, success |-> call.out = "ok"]

\* the results collected as the calls complete
AssembleResultsAsCompleted(calls, order) ==
  [k \in DOMAIN order |-> ToolCallResult(calls[order[k]])]

\* the array Promise.all resolves with: one entry per input call, at the
\* position of the call, whatever the order in which the calls completed
AssembleResults(calls, order) ==
  [i \in DOMAIN calls |-> ToolCallResult(calls[i])]

\* both counters moved by one settled call
CountSettleBoth(reg, name, out) ==
  IF name \notin DOMAIN reg
    THEN reg
    ELSE [reg EXCEPT ![name].errorCount = @ + 1, ![name].usageCount = @ + 1]

\* the counters of the registry entry after execute of a local tool settled
CountSettle(reg, name, out) ==
  IF name \notin DOMAIN reg
    THEN reg
    ELSE IF out = "raise"
           THEN [reg EXCEPT ![name].errorCount = @ + 1]
           ELSE [reg EXCEPT ![name].usageCount = @ + 1]

(***************************************************************************)
(* Conversation memory (src/bot/chatbot.ts).                               *)
(***************************************************************************)
\* the last n elements of a sequence: Array.slice(-n)
Last(seq, n) ==
  IF Len(seq) > n THEN SubSeq(seq, Len(seq) - n + 1, Len(seq)) ELSE seq

\* updateConversationHistory keeping one turn less than the maximum
updateConversationHistoryOdd(history, userMessage, botResponse) ==
  LET pushed == history \o << Turn("user", userMessage),
                              Turn("assistant", botResponse) >>
  IN  IF Len(pushed) > maxHistoryLength
        THEN Last(pushed, maxHistoryLength - 1)
        ELSE pushed

\* updateConversationHistory cutting at the wrong end: the newest turns go
updateConversationHistoryKeepOldest(history, userMessage, botResponse) ==
  LET pushed == history \o << Turn("user", userMessage),
                              Turn("assistant", botResponse) >>
  IN  IF Len(pushed) > maxHistoryLength
        THEN SubSeq(pushed, 1, maxHistoryLength)
        ELSE pushed

updateConversationHistory(history, userMessage, botResponse) ==
  LET pushed == history \o << Turn("user", userMessage),
                              Turn("assistant", botResponse) >>
  IN  IF Len(pushed) > maxHistoryLength
        THEN Last(pushed, maxHistoryLength)
        ELSE pushed

getConversationHistory(history) ==
  IF Len(history) > maxHistoryLengthRead
    THEN Last(history, maxHistoryLengthRead)
    ELSE history

\* the argument of clearConversationHistory() called without a user
NoUserId == "undefined"

\* clearConversationHistory deleting every history, whatever its argument
clearConversationHistoryEvery(store, userId) ==
  [u \in DOMAIN store |-> <<>>]

\* Chatbot.clearConversationHistory: Map.delete(userId), or Map.clear()
\* without a user; a user without an entry reads as the empty history
clearConversationHistory(store, userId) ==
  IF userId # NoUserId
    THEN [u \in DOMAIN store |-> IF u = userId THEN <<>> ELSE store[u]]
    ELSE [u \in DOMAIN store |-> <<>>]

(***************************************************************************)
(* What the handlers answer.                                               *)
(***************************************************************************)
\* generateResponse: the tool-usage indicator is added when llmResponse, the
\* last response received, carries tool calls
FinalContent(lastToolCalls) ==
  IF Len(lastToolCalls) > 0
    THEN <<ToolsUsedNote, LLMAnswer>>
    ELSE <<LLMAnswer>>

\* the catch of generateResponse
GenerateResponseCatch(errorMessage) == <<FallbackThink>>

\* the catch of generateHybridResponse
GenerateHybridResponseCatch(errorMessage) == <<FallbackIssue>>

\* the catch of the handler that called the LLM or the engine for record r
HandlerCatch(r, errorMessage) ==
  IF r.path = "hybrid"
    THEN GenerateHybridResponseCatch(errorMessage)
    ELSE GenerateResponseCatch(errorMessage)

\* generateHybridResponse asks the RAG service after its LLM calls
HybridEnhances(text, cfg) == cfg.hasRag /\ ~needsToolSupport(text)

\* the catch of Chatbot.generateRAGResponse
GenerateRAGResponseCatch(errorMessage) == <<FallbackIssue>>

\* RAGService.handleMultimodalMessage: the LLM content, then the outcome of
\* the document processing
MultimodalResponse(doc) ==
  CASE doc = "none" -> <<LLMAnswer>>
    [] doc = "ok"   -> <<LLMAnswer, DocOkNote>>
    [] OTHER        -> <<LLMAnswer, DocFailedNote, doc>>

\* Chatbot.generateRAGResponse: the sources line when context was found
RAGResponseContent(doc, usedRag, sources) ==
  IF usedRag /\ sources > 0
    THEN MultimodalResponse(doc) \o <<SourcesNote>>
    ELSE MultimodalResponse(doc)

\* generateSmartResponse, after isToolQuery answered no
SmartPath(text, cfg) ==
  IF needsToolSupport(text)
    THEN "tool"
    ELSE IF cfg.hasRag /\ cfg.enableRAG THEN "rag" ELSE "direct"

\* the chat middleware asking the tool detectors before the meta-query test
MiddlewarePathDetectorsFirst(text, cfg) ==
  IF ~shouldProcessMessage(text)
    THEN "skipped"
    ELSE IF needsToolSupport(text)
           THEN "tool"
           ELSE IF isToolQuery(text) THEN "meta" ELSE SmartPath(text, cfg)

\* the chat middleware: which handler answers the message
MiddlewarePath(text, cfg) ==
  IF ~shouldProcessMessage(text)
    THEN "skipped"
    ELSE IF isToolQuery(text) THEN "meta" ELSE SmartPath(text, cfg)

\* Chatbot.generateRAGResponse, before its first await
RAGEntry(text, cfg) ==
  IF ~cfg.hasRag
    THEN "generate"
    ELSE IF needsToolSupport(text) THEN "hybrid" ELSE "rag"

\* the chat middleware after generateSmartResponse: a response is recorded
\* in the history of the sender
MiddlewareHistory(history, userMessage, response) ==
  IF response # NoResp
    THEN updateConversationHistory(history, userMessage, response)
    ELSE history

(***************************************************************************)
(* Initial state: the chatbot is constructed and its services are          *)
(* initialized; no message has arrived.                                    *)
(***************************************************************************)
\* ChatbotConfig: retrieval needs supabase and openaiApiKey (hasRag) and is
\* switched by enableRAG; the MCP service exists unless enableMCP is false and
\* holds the tools of its connected servers (none by default)
Configs ==
  { c \in [hasRag : BOOLEAN, enableRAG : BOOLEAN, hasMcp : BOOLEAN,
           mcpTools : SUBSET McpToolNames] :
      /\ (~c.hasRag => c.enableRAG)
      /\ (~c.hasMcp => c.mcpTools = {}) }

IdleMsg ==
  [ pc       |-> "idle",
    seq      |-> 0,          \* the position of the message in the order of receipt
    from     |-> "u1",
    content  |-> "",
    hasMedia |-> FALSE,
    path     |-> "none",     \* the handler the middleware chose
    calls    |-> <<>>,       \* the tool calls of the first LLM response
    order    |-> <<>>,       \* their indices, in order of completion
    engine   |-> "none",     \* executeToolCalls: none | running | returned | raised
    results  |-> <<>>,       \* the array executeToolCalls returned
    llmCalls |-> 0,          \* calls of the LLM interface made for the message
    llm2     |-> "none",     \* the second LLM call: none | the engine state at its start
    doc      |-> "none",     \* processDocument: none | ok | the error text
    usedRag  |-> FALSE,
    sources  |-> 0,
    failure  |-> "none",     \* the interface that raised: none | llm | search | timeout
    raised   |-> FALSE,      \* the middleware raised to the transport
    resp     |-> NoResp,     \* the content sent to the user
    before   |-> <<>> ]      \* the history of the sender when the message arrived

\* Similarities are in hundredths.  The queries, limits and thresholds of
\* the searches of the model.
Queries == {"refund policy", "opening hours"}
Limits == {1, 3}
Thresholds == {70, 100}

\* no search has been made
IdleSearch ==
  [ pc         |-> "idle",  \* idle | embedding | documents | knowledge | returned | raised
    query      |-> "refund policy",
    limit      |-> 1,
    threshold  |-> 70,
    includeDocuments     |-> TRUE,
    includeKnowledgeBase |-> TRUE,
    embedding  |-> "none",  \* the embedding interface: none | ok | failed
    docAnswer  |-> "none",  \* what the document-chunk query answered: none | error | rows
    docRows    |-> <<>>,
    kbAnswer   |-> "none",  \* what the knowledge-base query answered
    kbRows     |-> <<>>,
    results    |-> <<>>,    \* the array `results`
    returned   |-> <<>>,    \* the array the call returned
    embedded   |-> {},      \* queries the embedding interface has answered
    recalls    |-> 0,       \* calls of the embedding interface for such a query
    calls      |-> 0,       \* calls of searchSimilarContent so far
    embeddingCache |-> {} ] \* RAGService.embeddingCache: the texts of its keys

\* process.env.ENABLE_PDF_IMAGE_CONVERSION === 'true'
Flags == BOOLEAN

\* MAX_PDF_SIZE, and sizes of media.data, in MB
\* cleanCache: the cap of embeddingCache and the entries it keeps
EmbeddingCacheCap == 1000

EmbeddingCacheKeep == 800

\* the lifetime of a searchCache entry, in ticks of the clock
CACHE_TTL == 1

SearchKeys == {"k1"}

MAX_PDF_SIZE == 10

Sizes == {1, 11}

\* the attachments handed to processPDF
Media ==
  [ type     : {"document", "image"},
    mimetype : {"application/pdf", "application/octet-stream"},
    filename : {"scan.PDF", "notes.txt", "undefined"},
    size     : Sizes ]

NoMedia ==
  [ type |-> "none", mimetype |-> "none", filename |-> "undefined", size |-> 0 ]

NoResult ==
  [ success |-> FALSE, text |-> "none", length |-> 0, truncated |-> FALSE,
    parsingMethod |-> "none", error |-> "none" ]

\* no document has been handed to processPDF
IdleIngest ==
  [ pc        |-> "idle",    \* idle | PDF.js | pdf-parse | image conversion | returned
    media     |-> NoMedia,
    attempted |-> <<>>,      \* the strategies called, in the order of their calls
    raised    |-> {},        \* the strategies that raised
    warned    |-> {},        \* the messages of their errors, as console.warn got them
    cleaned   |-> 0,         \* the length of the text the last strategy cleaned
    result    |-> NoResult,  \* the EnhancedPDFProcessingResult returned
    calls     |-> 0 ]

\* createChunks has not been called
IdleChunker ==
  [ pc |-> "idle", text |-> <<>>, chunkSize |-> 0, overlap |-> 0,
    spans  |-> <<>>,   \* history: start and end of every pass of the loop
    chunks |-> <<>> ]  \* the array returned

\* both caches of a new RAGService are empty
IdleCaches ==
  [ embedding |-> <<>>,   \* the keys of embeddingCache, in insertion order
    inserted  |-> 0,      \* entries inserted so far: the k-th has the key k
    search    |-> {},     \* the entries of searchCache: key and timestamp
    sweeps    |-> 0 ]     \* calls of cleanCache so far

\* the tool files readdirSync lists, in the order loadAllTools loads them
ToolFiles == << "time", "weather" >>

\* pc: new | microtask (an await that the microtask queue resumes) |
\*     io (an await that an event of the loop resumes) | done
\* stage: of initializeServices, none | tools | mcp | done
\* next: the tool file whose loadTool is awaited
Booted  == [pc |-> "done", stage |-> "done", next |-> Len(ToolFiles), middleware |-> TRUE]

NotBooted == [pc |-> "new", stage |-> "none", next |-> 0, middleware |-> FALSE]

(***************************************************************************)
(* MCPService (src/services/mcp.ts).                                       *)
(***************************************************************************)
\* createDefaultMCPConfig: the servers, in the order of the Map servers
McpServers == << "filesystem", "database", "web" >>

McpServerNames == {McpServers[k] : k \in DOMAIN McpServers}

\* the names of the tools mockMCPConnection registers for a server
getMockToolsForServer(serverName) ==
  CASE serverName = "filesystem" -> {"read_file", "write_file"}
    [] serverName = "database"   -> {"execute_query"}
    [] serverName = "web"        -> {"fetch_url"}
    [] OTHER                     -> {}

\* Tool.category of a mock tool: the name of its server
category(tool) ==
  CHOOSE serverName \in McpServerNames : tool \in getMockToolsForServer(serverName)

\* new MCPService(createDefaultMCPConfig()): every server is disabled
IdleMcp ==
  [ servers          |-> [serverName \in McpServerNames |-> FALSE],  \* MCPServer.enabled
    connectedServers |-> {},
    tools            |-> {},     \* the keys of the Map tools
    connecting       |-> <<>>,   \* calls of connectToServer at their await, oldest first
    calls            |-> 0 ]     \* calls made of the methods of the service

\* no document has been handed to processDocument, the tables are empty
IdleDocs ==
  [ pc        |-> "idle",  \* idle | extract | storeDocument | embeddings | insert | returned
    calls     |-> 0,       \* calls of processDocument: the id of the document row
    nchunks   |-> 0,       \* chunks createChunks makes of the text extracted
    documents |-> {},      \* the ids of the rows of the table documents
    chunks    |-> {},      \* the rows of the table document_chunks
    result    |-> [success |-> FALSE, chunksCreated |-> 0, error |-> "none"] ]

InitCommon ==
  /\ mcp = IdleMcp
  /\ docs = IdleDocs
  /\ boot = Booted
  /\ caches = IdleCaches
  /\ search = IdleSearch
  /\ ingest = IdleIngest
  /\ chunker = IdleChunker
  /\ received = 0
  /\ now = 0
  /\ tools = [n \in LocalToolNames |->
               [enabled |-> TRUE, usageCount |-> 0, errorCount |-> 0]]
  /\ rateLimitTracking = [k \in LocalToolNames \X Users |-> <<>>]
  /\ conversationHistory = [u \in Users |-> <<>>]
  /\ msgs = [m \in MsgIds |-> IdleMsg]
  /\ background = {}
  /\ admitLog = [k \in LocalToolNames \X Users |-> <<>>]
  /\ decisions = {}
  /\ appended = [u \in Users |-> <<>>]

\* The router: every message text, with and without media, every
\* configuration of retrieval; the LLM calls the tool `time` or a tool that
\* does not exist; one message is handled at a time.
Init ==
  /\ config \in {c \in Configs : ~c.hasMcp}
  /\ env = [ texts    |-> Texts,
             media    |-> BOOLEAN,
             users    |-> Users,
             names    |-> {"time", "nosuch"},
             outs     |-> {"ok", "fail", "raise"},
             msgs     |-> MaxMsgs,
             inflight |-> 1 ]
  /\ InitCommon

\* The tool engine: a tool-relevant message, every tool name and every
\* configuration of the MCP service; one message is handled at a time.
InitEngine ==
  /\ config \in {c \in Configs : ~c.hasRag}
  /\ env = [ texts    |-> {"Calculate 12 * 8"},
             media    |-> {FALSE},
             users    |-> {"u1"},
             names    |-> CallNames,
             outs     |-> {"ok", "fail", "raise"},
             msgs     |-> MaxMsgs,
             inflight |-> 1 ]
  /\ InitCommon

\* The registry: the tool `time` is executed, enabled, disabled and
\* reloaded.
InitRegistry ==
  /\ config \in {c \in Configs : ~c.hasRag /\ ~c.hasMcp}
  /\ env = [ texts    |-> {"Calculate 12 * 8"},
             media    |-> {FALSE},
             users    |-> {"u1"},
             names    |-> {"time"},
             outs     |-> {"ok", "raise"},
             msgs     |-> MaxMsgs,
             inflight |-> 1 ]
  /\ InitCommon

\* The rate limiter: two callers, a rate-limited and an unlimited tool, a
\* running clock, executions that succeed; one message is handled at a time.
InitRate ==
  /\ config \in {c \in Configs : ~c.hasRag /\ ~c.hasMcp}
  /\ env = [ texts    |-> {"Calculate 12 * 8"},
             media    |-> {FALSE},
             users    |-> Users,
             names    |-> LocalToolNames,
             outs     |-> {"ok"},
             msgs     |-> MaxRateMsgs,
             inflight |-> 1 ]
  /\ InitCommon

\* similarities the rows of a source carry
Sims == {62, 81, 100}

\* rows of a source: row k has id k and a similarity
Rows(sims) == [k \in DOMAIN sims |-> [id |-> k, similarity |-> sims[k]]]

\* every answer of at most MaxRows rows, in any order
AnyRows == {Rows(sims) : sims \in UNION {[1..n -> Sims] : n \in 0..MaxRows}}

\* corpora: the entries of a store in the order of its index, nearest first
Corpora ==
  { sims \in UNION {[1..n -> Sims] : n \in 0..MaxRows} :
      \A i \in DOMAIN sims, j \in DOMAIN sims : i < j => sims[i] >= sims[j] }

\* The search over sources that answer anything: rows of any similarity in
\* any order, or an error.
InitSearch ==
  /\ config \in {c \in Configs : c.hasRag /\ c.enableRAG /\ ~c.hasMcp}
  /\ env = [ texts    |-> {},
             media    |-> {},
             users    |-> {},
             names    |-> {},
             outs     |-> {},
             msgs     |-> 0,
             inflight |-> 0,
             store    |-> "any",
             corpus   |-> [document |-> <<>>, knowledge_base |-> <<>>] ]
  /\ InitCommon

\* The search over stores that answer the similarity query of the store
\* interface over their corpus.
InitSearchStore ==
  /\ config \in {c \in Configs : c.hasRag /\ c.enableRAG /\ ~c.hasMcp}
  /\ \E d \in Corpora, k \in Corpora :
       env = [ texts    |-> {},
               media    |-> {},
               users    |-> {},
               names    |-> {},
               outs     |-> {},
               msgs     |-> 0,
               inflight |-> 0,
               store    |-> "matching",
               corpus   |-> [document |-> d, knowledge_base |-> k] ]
  /\ InitCommon

\* The extraction of documents alone, with the image conversion switched on
\* or off in the environment of the process.
InitIngest ==
  /\ config \in {c \in Configs : c.hasRag /\ c.enableRAG /\ ~c.hasMcp}
  /\ \E flag \in Flags :
       env = [ texts    |-> {},
               media    |-> {},
               users    |-> {},
               names    |-> {},
               outs     |-> {},
               msgs     |-> 0,
               inflight |-> 0,
               imageConversion |-> flag ]
  /\ InitCommon

\* texts as sequences of characters: a letter, a blank, a full stop, a line
\* break
ChunkTexts == UNION {[1..n -> {"a", " ", ".", "\n"}] : n \in 0..MaxTextLen}

\* chunkSize and overlap in the proportions of their callers (1000 / 200 in
\* storeDocumentChunks, 2000 / 200 by default), in characters of the model
ChunkParams ==
  { [chunkSize |-> 5, overlap |-> 1], [chunkSize |-> 6, overlap |-> 1] }

\* The chunking of one text alone.
InitChunks ==
  /\ config \in {c \in Configs : c.hasRag /\ c.enableRAG /\ ~c.hasMcp}
  /\ \E text \in ChunkTexts, p \in ChunkParams :
       env = [ texts    |-> {},
               media    |-> {},
               users    |-> {},
               names    |-> {},
               outs     |-> {},
               msgs     |-> 0,
               inflight |-> 0,
               text     |-> text,
               chunkSize |-> p.chunkSize,
               overlap  |-> p.overlap ]
  /\ InitCommon

\* The caches of the RAG service alone: entries are cached, time passes and
\* the interval timer calls cleanCache.
InitCache ==
  /\ config \in {c \in Configs : c.hasRag /\ c.enableRAG /\ ~c.hasMcp}
  /\ env = [ texts    |-> {},
             media    |-> {},
             users    |-> {},
             names    |-> {},
             outs     |-> {},
             msgs     |-> 0,
             inflight |-> 0 ]
  /\ InitCommon

\* texts of letters and full stops, and every pair of a chunkSize and an
\* overlap below it
LoopTexts ==
  {text \in ChunkTexts : \A i \in DOMAIN text : text[i] \in {"a", "."}}

LoopParams ==
  { [chunkSize |-> c, overlap |-> o] : c \in {4, 6}, o \in 0..5 }

\* The loop of createChunks, pass by pass.
InitChunkLoop ==
  /\ config \in {c \in Configs : c.hasRag /\ c.enableRAG /\ ~c.hasMcp}
  /\ \E text \in LoopTexts, p \in {q \in LoopParams : q.overlap < q.chunkSize} :
       env = [ texts    |-> {},
               media    |-> {},
               users    |-> {},
               names    |-> {},
               outs     |-> {},
               msgs     |-> 0,
               inflight |-> 0,
               text     |-> text,
               chunkSize |-> p.chunkSize,
               overlap  |-> p.overlap ]
  /\ InitCommon

\* The construction of the Chatbot: the services env.target describes are
\* configured, nothing is built yet, and one message arrives at any time the
\* event loop takes an event.
InitBoot ==
  /\ \E target \in Configs :
       env = [ texts    |-> {"Calculate 12 * 8", "explain the refund policy"},
               media    |-> {FALSE},
               users    |-> {"u1"},
               names    |-> {"time"},
               outs     |-> {"ok"},
               msgs     |-> 1,
               inflight |-> 1,
               target   |-> target ]
  /\ config = [hasRag |-> FALSE, enableRAG |-> TRUE, hasMcp |-> FALSE, mcpTools |-> {}]
  /\ boot = NotBooted
  /\ mcp = IdleMcp
  /\ docs = IdleDocs
  /\ tools = << >>
  /\ caches = IdleCaches
  /\ search = IdleSearch
  /\ ingest = IdleIngest
  /\ chunker = IdleChunker
  /\ received = 0
  /\ now = 0
  /\ rateLimitTracking = [k \in LocalToolNames \X Users |-> <<>>]
  /\ conversationHistory = [u \in Users |-> <<>>]
  /\ msgs = [m \in MsgIds |-> IdleMsg]
  /\ background = {}
  /\ admitLog = [k \in LocalToolNames \X Users |-> <<>>]
  /\ decisions = {}
  /\ appended = [u \in Users |-> <<>>]

\* The ingestion of documents alone: PDFs, images and other files are handed
\* to processDocument, one after the other.
InitDocument ==
  /\ config \in {c \in Configs : c.hasRag /\ c.enableRAG /\ ~c.hasMcp}
  /\ env = [ texts    |-> {},
             media    |-> {},
             users    |-> {},
             names    |-> {},
             outs     |-> {},
             msgs     |-> 0,
             inflight |-> 0 ]
  /\ InitCommon

\* The hybrid handler: generateRAGResponse is handed tool-relevant messages,
\* with and without a RAG service.
InitHybrid ==
  /\ config \in {c \in Configs : c.enableRAG /\ ~c.hasMcp}
  /\ env = [ texts    |-> {"Calculate 12 * 8"},
             media    |-> {FALSE},
             users    |-> {"u1"},
             names    |-> {"time"},
             outs     |-> {"ok", "raise"},
             msgs     |-> MaxMsgs,
             inflight |-> 1 ]
  /\ InitCommon

\* The conversation memory alone: exchanges are appended to the histories of
\* two users.
InitHistory ==
  /\ config \in {c \in Configs : ~c.hasRag /\ ~c.hasMcp}
  /\ env = [ texts    |-> {"hello"},
             media    |-> {FALSE},
             users    |-> Users,
             names    |-> {},
             outs     |-> {},
             msgs     |-> 0,
             inflight |-> 0 ]
  /\ InitCommon

\* The MCP service the chatbot constructs, and every name a caller may pass
InitMcp ==
  /\ env = [ texts    |-> {},
             media    |-> {FALSE},
             users    |-> {"u1"},
             names    |-> {},
             outs     |-> {},
             msgs     |-> 0,
             inflight |-> 0,
             servers  |-> McpServerNames \cup {"nosuch"} ]
  /\ config = [hasRag |-> FALSE, enableRAG |-> TRUE, hasMcp |-> TRUE, mcpTools |-> {}]
  /\ InitCommon

\* The stored history of one user: messages answered with tool calls, then
\* further exchanges up to the trim, and clears at any time.
InitStored ==
  /\ config \in {c \in Configs : ~c.hasRag /\ ~c.hasMcp}
  /\ env = [ texts    |-> {"Calculate 12 * 8"},
             media    |-> {FALSE},
             users    |-> {"u1"},
             names    |-> {"time"},
             outs     |-> {"ok", "fail"},
             msgs     |-> MaxMsgs,
             inflight |-> 1 ]
  /\ InitCommon

\* Concurrent handlers: the transport delivers a message while the handler
\* of an earlier one is suspended; two texts, so that exchanges are told apart.
InitConcurrent ==
  /\ config \in {c \in Configs : ~c.hasRag /\ ~c.hasMcp}
  /\ env = [ texts    |-> {"hello", "Calculate 12 * 8"},
             media    |-> {FALSE},
             users    |-> Users,
             names    |-> {"time"},
             outs     |-> {"ok"},
             msgs     |-> MaxMsgs,
             inflight |-> MaxInFlight ]
  /\ InitCommon

(***************************************************************************)
(* History variables of the rate limiter.                                  *)
(***************************************************************************)
\* admitted calls of the log inside the window that ends at time t
AdmittedInWindow(log, t) ==
  Cardinality({i \in DOMAIN log : t - log[i] < RateWindowMs /\ log[i] <= t})

\* the log and the decisions after the dispatched calls[k..]
RECURSIVE LogAll(_, _, _, _, _, _)
LogAll(calls, userId, t, k, log, dec) ==
  IF k > Len(calls)
    THEN [log |-> log, dec |-> dec]
    ELSE LET c == calls[k]
             key == <<c.name, userId>>
         IN  IF HasRateLimit(c.name) /\ c.kind \in {"local", "ratelimited"}
               THEN LogAll(calls, userId, t, k + 1,
                      IF c.kind = "local"
                        THEN [log EXCEPT ![key] = Append(@, t)]
                        ELSE log,
                      dec \cup {[ tool     |-> c.name,
                                  user     |-> userId,
                                  time     |-> t,
                                  admitted |-> c.kind = "local",
                                  prior    |-> AdmittedInWindow(log[key], t) ]})
               ELSE LogAll(calls, userId, t, k + 1, log, dec)

(***************************************************************************)
(* The chat middleware (setupMiddleware) and the handlers it calls.        *)
(***************************************************************************)
\* the middleware returns `content` for message record r: the exchange is
\* recorded in the history of the sender
Done(r, content) == [r EXCEPT !.pc = "done", !.resp = content]

Record(r, content) ==
  /\ conversationHistory' =
       [conversationHistory EXCEPT ![r.from] =
          MiddlewareHistory(@, r.content, content)]
  /\ appended' =
       [appended EXCEPT ![r.from] =
          IF content # NoResp
            THEN @ \o <<Turn("user", r.content), Turn("assistant", content)>>
            ELSE @]

\* generateResponse up to its first await: the first LLM call is made
StartGenerate(r) == [r EXCEPT !.pc = "llm1", !.llmCalls = 1]

\* generateHybridResponse up to its first await: its first LLM call is made
StartHybrid(r) == [r EXCEPT !.pc = "llm1", !.path = "hybrid", !.llmCalls = 1]

\* RAGService.handleMultimodalMessage up to its first await
StartMultimodal(r) ==
  IF r.hasMedia
    THEN [r EXCEPT !.pc = "doc"]
    ELSE IF shouldUseRAG(r.content)
           THEN [r EXCEPT !.pc = "search", !.usedRag = TRUE]
           ELSE [r EXCEPT !.pc = "ragllm", !.llmCalls = 1]

\* handlers suspended at an await
InFlight == {m \in MsgIds : msgs[m].pc \notin {"idle", "done"}}

\* the transport delivers a message: the middleware runs up to its first
\* await.  The handler takes the first free slot m.
Receive(m, u, text, media) ==
  /\ received < env.msgs
  /\ Cardinality(InFlight) < env.inflight
  /\ m \notin InFlight
  /\ \A k \in MsgIds : k < m => k \in InFlight
  /\ received' = received + 1
  /\ LET r == [IdleMsg EXCEPT !.seq = received + 1,
                              !.from = u, !.content = text, !.hasMedia = media,
                              !.before = conversationHistory[u],
                              !.path = MiddlewarePath(text, config)]
     IN  msgs' = [msgs EXCEPT ![m] =
           CASE r.path = "skipped" -> Done(r, NoResp)
             [] r.path = "meta"    -> Done(r, <<StaticSummary>>)
             [] r.path = "rag"     ->
                  CASE RAGEntry(text, config) = "rag"    -> StartMultimodal(r)
                    [] RAGEntry(text, config) = "hybrid" -> StartHybrid(r)
                    [] OTHER                             -> StartGenerate(r)
             [] OTHER              -> StartGenerate(r)]
  /\ UNCHANGED << mcp, docs, boot, caches, search, ingest, chunker, env, now, config, tools, rateLimitTracking, conversationHistory,
                  background, admitLog, decisions, appended >>

\* message record r after executeToolCalls dispatched `calls`, or after one
\* of them changed: Promise.all decides how generateResponse goes on.
\*   fulfilled: the results are returned and the second LLM call is made
\*   rejected:  executeToolCalls raises into the catch of generateResponse
AfterEngine(r, calls, order) ==
  CASE PromiseAll(calls) = "fulfilled" ->
         [r EXCEPT !.calls = calls, !.order = order, !.engine = "returned",
                   !.results = AssembleResults(calls, order),
                   !.pc = "llm2", !.llmCalls = @ + 1, !.llm2 = "returned"]
    [] PromiseAll(calls) = "rejected" ->
         Done([r EXCEPT !.calls = calls, !.order = order, !.engine = "raised",
                        !.failure = "timeout"],
              HandlerCatch(r, "Tool timed out after 30 seconds"))
    [] OTHER ->
         [r EXCEPT !.calls = calls, !.order = order, !.engine = "running",
                   !.pc = "tools"]

\* the running executions cancelled when the engine gives up
AbandonedCancelled(m, calls) == {}

\* the executions of message m that are running when the engine gives up
Abandoned(m, calls) ==
  { [m |-> m, id |-> calls[i].id, name |-> calls[i].name, kind |-> calls[i].kind] :
      i \in {j \in DOMAIN calls : calls[j].st \in {"pending", "timedout"}} }

\* indices of the calls answered at dispatch, in input order
RECURSIVE SettledAtDispatch(_, _)
SettledAtDispatch(calls, k) ==
  IF k > Len(calls)
    THEN <<>>
    ELSE (IF calls[k].st = "settled" THEN <<k>> ELSE <<>>)
           \o SettledAtDispatch(calls, k + 1)

\* the last LLM call of the handler of message m has returned, without tool
\* calls: generateHybridResponse may ask the RAG service, then the content
\* is the answer
AnswerStep(m) ==
  IF msgs[m].path = "hybrid" /\ HybridEnhances(msgs[m].content, config)
    THEN /\ msgs' = [msgs EXCEPT ![m] =
                [@ EXCEPT !.pc = "hybridrag", !.usedRag = TRUE]]
         /\ UNCHANGED <<conversationHistory, appended>>
    ELSE /\ msgs' = [msgs EXCEPT ![m] = Done(@, FinalContent(<<>>))]
         /\ Record(msgs[m], FinalContent(<<>>))

\* generateRAGResponse is called with a message
CallRAGResponse(m, u, text) ==
  /\ received < env.msgs
  /\ Cardinality(InFlight) < env.inflight
  /\ m \notin InFlight
  /\ \A k \in MsgIds : k < m => k \in InFlight
  /\ received' = received + 1
  /\ LET r == [IdleMsg EXCEPT !.seq = received + 1,
                              !.from = u, !.content = text,
                              !.before = conversationHistory[u],
                              !.path = "rag"]
     IN  msgs' = [msgs EXCEPT ![m] =
           CASE RAGEntry(text, config) = "rag"    -> StartMultimodal(r)
             [] RAGEntry(text, config) = "hybrid" -> StartHybrid(r)
             [] OTHER                             -> StartGenerate(r)]
  /\ UNCHANGED << mcp, docs, boot, caches, search, ingest, chunker, env, now, config, tools,
                  rateLimitTracking, conversationHistory, background, admitLog,
                  decisions, appended >>

\* the first LLM call returns without tool calls: its content is the answer
LLM1Answer(m) ==
  /\ msgs[m].pc = "llm1"
  /\ AnswerStep(m)
  /\ UNCHANGED << mcp, docs, boot, caches, search, ingest, chunker, env, received, now, config, tools, rateLimitTracking, background, admitLog,
                  decisions >>

\* generateResponse goes on after the engine moved to `calls`
EngineStep(m, calls, order) ==
  LET r == msgs[m]
      r2 == AfterEngine(r, calls, order)
  IN  /\ msgs' = [msgs EXCEPT ![m] = r2]
      /\ background' =
           IF r2.engine = "raised" THEN background \cup Abandoned(m, calls)
           ELSE background
      /\ IF r2.pc = "done"
           THEN Record(r, r2.resp)
           ELSE UNCHANGED <<conversationHistory, appended>>

\* the first LLM call returns tool calls (the providers return some only when
\* tools were offered): executeToolCalls dispatches all of them
LLM1ToolCalls(m, names) ==
  /\ msgs[m].pc = "llm1"
  /\ Len(names) > 0
  /\ availableTools(tools, config) # {}
  /\ LET r == msgs[m]
         d == DispatchAll(tools, config, rateLimitTracking, names, r.from, now,
                          1, <<>>)
         g == LogAll(d.calls, r.from, now, 1, admitLog, {})
     IN  /\ EngineStep(m, d.calls, SettledAtDispatch(d.calls, 1))
         /\ rateLimitTracking' = d.track
         /\ admitLog' = g.log
         /\ decisions' = g.dec
  /\ UNCHANGED << mcp, docs, boot, caches, search, ingest, chunker, env, received, now, config, tools >>

\* an LLM call of generateResponse raises: its catch answers
LLMRaise(m) ==
  /\ msgs[m].pc \in {"llm1", "llm2"}
  /\ LET content == HandlerCatch(msgs[m], "LLM API error")
     IN  /\ msgs' = [msgs EXCEPT ![m] = Done([@ EXCEPT !.failure = "llm"], content)]
         /\ Record(msgs[m], content)
  /\ UNCHANGED << mcp, docs, boot, caches, search, ingest, chunker, env, received, now, config, tools, rateLimitTracking, background, admitLog,
                  decisions >>

\* execute of pending call i of message m settles before its timer:
\* out is ok (success), fail (success = false) or raise
ToolSettle(m, i, out) ==
  /\ msgs[m].pc = "tools"
  /\ i \in DOMAIN msgs[m].calls
  /\ msgs[m].calls[i].st = "pending"
  /\ LET r == msgs[m]
         c == r.calls[i]
         calls == [r.calls EXCEPT ![i] = [@ EXCEPT !.st = "settled", !.out = out]]
     IN  /\ EngineStep(m, calls, Append(r.order, i))
         /\ tools' = IF c.kind = "local" THEN CountSettle(tools, c.name, out)
                     ELSE tools
  /\ UNCHANGED << mcp, docs, boot, caches, search, ingest, chunker, env, received, now, config, rateLimitTracking, admitLog, decisions >>

\* the 30 s timer of pending call i of message m fires first
ToolTimeout(m, i) ==
  /\ msgs[m].pc = "tools"
  /\ i \in DOMAIN msgs[m].calls
  /\ msgs[m].calls[i].st = "pending"
  /\ LET r == msgs[m]
         calls == [r.calls EXCEPT ![i] = [@ EXCEPT !.st = "timedout"]]
     IN  EngineStep(m, calls, r.order)
  /\ UNCHANGED << mcp, docs, boot, caches, search, ingest, chunker, env, received, now, config, tools, rateLimitTracking, admitLog, decisions >>

\* an abandoned execution runs to its end: its result is dropped
BackgroundSettle(b, out) ==
  /\ b \in background
  /\ background' = background \ {b}
  /\ tools' = IF b.kind = "local" THEN CountSettle(tools, b.name, out) ELSE tools
  /\ UNCHANGED << mcp, docs, boot, caches, search, ingest, chunker, env, received, now, config, rateLimitTracking, conversationHistory, msgs,
                  admitLog, decisions, appended >>

\* the second LLM call (tools = []) returns: no tool calls come with it
LLM2Answer(m) ==
  /\ msgs[m].pc = "llm2"
  /\ AnswerStep(m)
  /\ UNCHANGED << mcp, docs, boot, caches, search, ingest, chunker, env, received, now, config, tools, rateLimitTracking, background, admitLog,
                  decisions >>

(***************************************************************************)
(* The retrieval-augmented path: Chatbot.generateRAGResponse and           *)
(* RAGService.handleMultimodalMessage (src/services/whatsapp.ts).          *)
(***************************************************************************)
\* processDocument returns: ok, or success = false with the text of the error
\* it caught (parser, unsupported type, storage, embedding)
DocDone(m, result) ==
  /\ msgs[m].pc = "doc"
  /\ msgs' = [msgs EXCEPT ![m] =
       IF shouldUseRAG(@.content)
         THEN [@ EXCEPT !.doc = result, !.pc = "search", !.usedRag = TRUE]
         ELSE [@ EXCEPT !.doc = result, !.pc = "ragllm", !.llmCalls = 1]]
  /\ UNCHANGED << mcp, docs, boot, caches, search, ingest, chunker, env, received, now, config, tools, rateLimitTracking, conversationHistory,
                  background, admitLog, decisions, appended >>

\* searchSimilarContent returns n results: the contextual LLM call is made
SearchDone(m, n) ==
  /\ msgs[m].pc = "search"
  /\ msgs' = [msgs EXCEPT ![m] =
       [@ EXCEPT !.sources = n, !.pc = "ragllm", !.llmCalls = 1]]
  /\ UNCHANGED << mcp, docs, boot, caches, search, ingest, chunker, env, received, now, config, tools, rateLimitTracking, conversationHistory,
                  background, admitLog, decisions, appended >>

\* the embedding interface or the store raises in searchSimilarContent: the
\* error is re-raised up to the catch of Chatbot.generateRAGResponse
SearchRaise(m) ==
  /\ msgs[m].pc = "search"
  /\ LET content == GenerateRAGResponseCatch(ErrEmbedding)
     IN  /\ msgs' = [msgs EXCEPT ![m] =
                Done([@ EXCEPT !.failure = "search"], content)]
         /\ Record(msgs[m], content)
  /\ UNCHANGED << mcp, docs, boot, caches, search, ingest, chunker, env, received, now, config, tools, rateLimitTracking, background, admitLog,
                  decisions >>

\* the LLM call of the RAG service returns
RagLLMAnswer(m) ==
  /\ msgs[m].pc = "ragllm"
  /\ LET r == msgs[m]
         content == RAGResponseContent(r.doc, r.usedRag, r.sources)
     IN  /\ msgs' = [msgs EXCEPT ![m] = Done(@, content)]
         /\ Record(r, content)
  /\ UNCHANGED << mcp, docs, boot, caches, search, ingest, chunker, env, received, now, config, tools, rateLimitTracking, background, admitLog,
                  decisions >>

\* the LLM call of the RAG service raises
RagLLMRaise(m) ==
  /\ msgs[m].pc = "ragllm"
  /\ LET content == GenerateRAGResponseCatch("LLM API error")
     IN  /\ msgs' = [msgs EXCEPT ![m] = Done([@ EXCEPT !.failure = "llm"], content)]
         /\ Record(msgs[m], content)
  /\ UNCHANGED << mcp, docs, boot, caches, search, ingest, chunker, env, received, now, config, tools, rateLimitTracking, background, admitLog,
                  decisions >>

(***************************************************************************)
(* The environment: the clock, and the management interface of the bot.    *)
(***************************************************************************)
Tick ==
  /\ now < MaxTime
  /\ now' = now + 1
  /\ UNCHANGED << mcp, docs, boot, caches, search, ingest, chunker, env, received, config, tools, rateLimitTracking, conversationHistory, msgs,
                  background, admitLog, decisions, appended >>

\* ToolManager.enableTool / disableTool
enableTool(reg, name) ==
  IF name \in DOMAIN reg THEN [reg EXCEPT ![name].enabled = TRUE] ELSE reg

disableTool(reg, name) ==
  IF name \in DOMAIN reg THEN [reg EXCEPT ![name].enabled = FALSE] ELSE reg

EnableTool(name) ==
  /\ tools' = enableTool(tools, name)
  /\ tools' # tools
  /\ UNCHANGED << mcp, docs, boot, caches, search, ingest, chunker, env, received, now, config, rateLimitTracking, conversationHistory, msgs,
                  background, admitLog, decisions, appended >>

DisableTool(name) ==
  /\ tools' = disableTool(tools, name)
  /\ tools' # tools
  /\ UNCHANGED << mcp, docs, boot, caches, search, ingest, chunker, env, received, now, config, rateLimitTracking, conversationHistory, msgs,
                  background, admitLog, decisions, appended >>

(***************************************************************************)
(* RAGService.processDocument (src/services/whatsapp.ts) and the two       *)
(* inserts of VectorService (src/services/vector.ts).                      *)
(***************************************************************************)
\* processDocument returns a failure: from an early return or from its catch
documentFailed(d, error) ==
  [d EXCEPT !.pc = "returned",
            !.result = [success |-> FALSE, chunksCreated |-> 0, error |-> error]]

\* the catch of processDocument
documentCatch(d, error) == documentFailed(d, error)

documentSucceeded(d, chunksCreated) ==
  [d EXCEPT !.pc = "returned",
            !.result = [success |-> TRUE, chunksCreated |-> chunksCreated,
                        error |-> "none"]]

\* processDocument is called with a PDF, an image, or another file; the
\* caption of an image is its text
ProcessDocument(kind, n) ==
  /\ docs.pc \in {"idle", "returned"}
  /\ docs.calls < MaxDocuments
  /\ LET d == [docs EXCEPT !.calls = @ + 1, !.nchunks = 0,
                           !.result = IdleDocs.result]
     IN  docs' = CASE kind = "pdf"   -> [d EXCEPT !.pc = "extract"]
                   [] kind = "image" -> [d EXCEPT !.pc = "storeDocument", !.nchunks = n]
                   [] OTHER          -> documentFailed(d, "Unsupported file type")
  /\ UNCHANGED << mcp, boot, caches, search, ingest, chunker, env, received, now,
                  config, tools, rateLimitTracking, conversationHistory, msgs,
                  background, admitLog, decisions, appended >>

\* PDFService.processPDF returns: a failure is returned as it is, a text of
\* n chunks (none when it is blank) goes on to storeDocument
ExtractAnswer(ok, n) ==
  /\ docs.pc = "extract"
  /\ docs' = IF ok
               THEN [docs EXCEPT !.pc = "storeDocument", !.nchunks = n]
               ELSE documentFailed(docs, "PDF processing failed")
  /\ UNCHANGED << mcp, boot, caches, search, ingest, chunker, env, received, now,
                  config, tools, rateLimitTracking, conversationHistory, msgs,
                  background, admitLog, decisions, appended >>

\* VectorService.storeDocument settles: the row is inserted, or it raises
StoreDocumentAnswer(ok) ==
  /\ docs.pc = "storeDocument"
  /\ docs' = IF ~ok
               THEN documentCatch(docs, "Failed to store document")
               ELSE LET d == [docs EXCEPT !.documents = @ \cup {docs.calls}]
                    IN  IF d.nchunks > 0
                          THEN [d EXCEPT !.pc = "embeddings"]
                          ELSE documentSucceeded(d, 0)
  /\ UNCHANGED << mcp, boot, caches, search, ingest, chunker, env, received, now,
                  config, tools, rateLimitTracking, conversationHistory, msgs,
                  background, admitLog, decisions, appended >>

\* storeDocumentChunks: generateEmbeddings settles
ChunkEmbeddingsAnswer(ok) ==
  /\ docs.pc = "embeddings"
  /\ docs' = IF ok
               THEN [docs EXCEPT !.pc = "insert"]
               ELSE documentCatch(docs, "Embedding generation failed")
  /\ UNCHANGED << mcp, boot, caches, search, ingest, chunker, env, received, now,
                  config, tools, rateLimitTracking, conversationHistory, msgs,
                  background, admitLog, decisions, appended >>

\* storeDocumentChunks: the one insert of every chunk settles
InsertChunksAnswer(ok) ==
  /\ docs.pc = "insert"
  /\ docs' = IF ~ok
               THEN documentCatch(docs, "Failed to store document chunks")
               ELSE documentSucceeded(
                      [docs EXCEPT !.chunks = @ \cup
                         { [document_id |-> docs.calls, chunk_index |-> i] :
                             i \in 0..(docs.nchunks - 1) }],
                      docs.nchunks)
  /\ UNCHANGED << mcp, boot, caches, search, ingest, chunker, env, received, now,
                  config, tools, rateLimitTracking, conversationHistory, msgs,
                  background, admitLog, decisions, appended >>

\* MCPService.getAvailableTools: the tools of the Map whose enabled is true;
\* every mock tool declares enabled: true and nothing writes the field
mcpAvailableTools(svc) == svc.tools

\* connectToServer as far as its await: mockMCPConnection has run and set the
\* tools of the server; connectedServers.add follows the await
connectToServer(svc, serverName) ==
  [svc EXCEPT !.tools = @ \cup getMockToolsForServer(serverName),
              !.connecting = Append(@, serverName)]

\* initialize: connectToServer for the servers that are enabled, in the order
\* of the Map, from the k-th on
RECURSIVE connectEnabled(_, _)
connectEnabled(svc, k) ==
  IF k > Len(McpServers)
    THEN svc
    ELSE connectEnabled(IF svc.servers[McpServers[k]]
                          THEN connectToServer(svc, McpServers[k])
                          ELSE svc,
                        k + 1)

reconnectServer(svc, serverName) ==
  IF serverName \in DOMAIN svc.servers THEN connectToServer(svc, serverName) ELSE svc

enableServer(svc, serverName) ==
  IF serverName \in DOMAIN svc.servers
    THEN [svc EXCEPT !.servers[serverName] = TRUE]
    ELSE svc

disableServer(svc, serverName) ==
  IF serverName \in DOMAIN svc.servers
    THEN [svc EXCEPT !.servers[serverName] = FALSE,
                     !.connectedServers = @ \ {serverName},
                     !.tools = {tool \in @ : category(tool) # serverName}]
    ELSE svc

\* a method of the service is called: by the chatbot, or by a caller that
\* does not await the call before
McpCall(after) ==
  /\ mcp.calls < MaxMcpCalls
  /\ mcp' = [after EXCEPT !.calls = @ + 1]
  /\ UNCHANGED << docs, boot, caches, search, ingest, chunker, env, received, now,
                  config, tools, rateLimitTracking, conversationHistory, msgs,
                  background, admitLog, decisions, appended >>

McpInitialize == McpCall(connectEnabled(mcp, 1))

ReconnectServer(serverName) == McpCall(reconnectServer(mcp, serverName))

EnableServer(serverName) == McpCall(enableServer(mcp, serverName))

DisableServer(serverName) == McpCall(disableServer(mcp, serverName))

\* the oldest connectToServer resumes after its await: connectedServers.add
ConnectResume ==
  /\ mcp.connecting # <<>>
  /\ mcp' = [mcp EXCEPT !.connectedServers = @ \cup {Head(mcp.connecting)},
                        !.connecting = Tail(@)]
  /\ UNCHANGED << docs, boot, caches, search, ingest, chunker, env, received, now,
                  config, tools, rateLimitTracking, conversationHistory, msgs,
                  background, admitLog, decisions, appended >>

\* ToolManager.loadTool: the module is required afresh (its cache entry is
\* deleted first), so the entry holds what the file declares (time.js and
\* weather.js declare enabled: true; validateTool defaults it to true) and
\* new counters
loadTool(name) == [enabled |-> TRUE, usageCount |-> 0, errorCount |-> 0]

\* tools.set(tool.name, loadedTool)
register(reg, name) ==
  [n \in DOMAIN reg \cup {name} |-> IF n = name THEN loadTool(name) ELSE reg[n]]

\* every tool file with an initialize method
hasInitializeAlways(name) == TRUE

\* whether the tool file exports an initialize method, which loadTool awaits:
\* time.js and weather.js export none
hasInitialize(name) == FALSE

\* loadAllTools calls loadTool for file k, which runs to its first await:
\* that of tool.initialize(), or, the tool registered, that of loadAllTools
callLoadTool(reg, k) ==
  IF hasInitialize(ToolFiles[k])
    THEN [tools |-> reg, pc |-> "io"]
    ELSE [tools |-> register(reg, ToolFiles[k]), pc |-> "microtask"]

\* new Chatbot(...): initializeServices runs to its first await (the RAG
\* service is built, toolManager.initialize() has called loadTool for the
\* first file), then setupMiddleware installs the chat middleware
Construct ==
  /\ boot.pc = "new"
  /\ config' = [config EXCEPT !.hasRag = env.target.hasRag,
                              !.enableRAG = env.target.enableRAG]
  /\ tools' = callLoadTool(tools, 1).tools
  /\ boot' = [pc |-> callLoadTool(tools, 1).pc, stage |-> "tools", next |-> 1,
              middleware |-> TRUE]
  /\ UNCHANGED << mcp, docs, caches, search, ingest, chunker, env, received, now,
                  rateLimitTracking, conversationHistory, msgs, background,
                  admitLog, decisions, appended >>

\* the await initializeServices is suspended at is resumed.  In the stage
\* tools: the tool of an awaited initialize is registered, then the next
\* file is loaded or, after the last, the MCP service is built and its mock
\* connections made.  In the stage mcp: initializeServices ends.
InitResume ==
  /\ boot.pc \in {"microtask", "io"}
  /\ LET reg == IF boot.stage = "tools" /\ boot.pc = "io"
                  THEN register(tools, ToolFiles[boot.next])
                  ELSE tools
     IN  IF boot.stage = "tools" /\ boot.next < Len(ToolFiles)
           THEN /\ tools' = callLoadTool(reg, boot.next + 1).tools
                /\ boot' = [boot EXCEPT !.pc = callLoadTool(reg, boot.next + 1).pc,
                                        !.next = @ + 1]
                /\ UNCHANGED config
           ELSE IF boot.stage = "tools" /\ env.target.hasMcp
                  THEN /\ tools' = reg
                       /\ boot' = [boot EXCEPT !.pc = "microtask", !.stage = "mcp"]
                       /\ config' = [config EXCEPT !.hasMcp = TRUE,
                                                   !.mcpTools = env.target.mcpTools]
                  ELSE /\ tools' = reg
                       /\ boot' = [boot EXCEPT !.pc = "done", !.stage = "done"]
                       /\ UNCHANGED config
  /\ UNCHANGED << mcp, docs, caches, search, ingest, chunker, env, received, now,
                  rateLimitTracking, conversationHistory, msgs, background,
                  admitLog, decisions, appended >>

\* the transport delivers a message: an event of the loop, taken when the
\* microtask queue is empty, and handled by the middleware once installed
Deliver(m, u, text, media) ==
  /\ boot.middleware
  /\ boot.pc # "microtask"
  /\ Receive(m, u, text, media)

\* ToolManager.reloadTool: an unknown name, or a cleanup or load that raises,
\* leaves the registry as it is; otherwise the entry is replaced
reloadTool(reg, name, ok) ==
  IF name \in DOMAIN reg /\ ok
    THEN [reg EXCEPT ![name] = loadTool(name)]
    ELSE reg

\* reloadTool is called between the executions of the tool
ReloadTool(name, ok) ==
  /\ \A m \in MsgIds : \A i \in DOMAIN msgs[m].calls :
        msgs[m].calls[i].name = name => msgs[m].calls[i].st # "pending"
  /\ \A b \in background : b.name # name
  /\ tools' = reloadTool(tools, name, ok)
  /\ tools' # tools
  /\ UNCHANGED << mcp, docs, boot, caches, search, ingest, chunker, env, received, now, config, rateLimitTracking, conversationHistory, msgs,
                  background, admitLog, decisions, appended >>

\* Map.prototype.set on embeddingCache: a new key goes to the end of the
\* insertion order, a key already there keeps its place
setCachedEmbedding(keys, key) ==
  IF \E i \in DOMAIN keys : keys[i] = key THEN keys ELSE Append(keys, key)

\* Map.prototype.set on searchCache, with the timestamp t
setCachedSearch(entries, cacheKey, t) ==
  {e \in entries : e.key # cacheKey} \cup {[key |-> cacheKey, timestamp |-> t]}

\* the embedding entries left when the oldest 800 are kept
limitEmbeddingCacheOldest(keys) ==
  IF Len(keys) > EmbeddingCacheCap
    THEN SubSeq(keys, 1, EmbeddingCacheKeep)
    ELSE keys

\* cleanCache, embedding part: above the cap the keys before the last 800
\* of the insertion order are deleted
limitEmbeddingCache(keys) ==
  IF Len(keys) > EmbeddingCacheCap
    THEN SubSeq(keys, Len(keys) - EmbeddingCacheKeep + 1, Len(keys))
    ELSE keys

\* cleanCache, search part: the entries older than CACHE_TTL are deleted
cleanSearchCache(entries, t) ==
  {e \in entries : ~(t - e.timestamp > CACHE_TTL)}

SetCachedEmbedding(key) ==
  /\ key >= 1
  /\ caches.inserted < MaxInserts
  /\ caches' = [caches EXCEPT
                  !.embedding = setCachedEmbedding(@, key),
                  !.inserted  = IF key > @ THEN key ELSE @]
  /\ UNCHANGED << mcp, docs, boot, search, ingest, chunker, env, received, now, config, tools,
                  rateLimitTracking, conversationHistory, msgs, background,
                  admitLog, decisions, appended >>

SetCachedSearch(cacheKey) ==
  /\ caches' = [caches EXCEPT !.search = setCachedSearch(@, cacheKey, now)]
  /\ UNCHANGED << mcp, docs, boot, search, ingest, chunker, env, received, now, config, tools,
                  rateLimitTracking, conversationHistory, msgs, background,
                  admitLog, decisions, appended >>

\* the interval timer fires: cleanCache
CleanCache ==
  /\ caches.sweeps < MaxSweeps
  /\ caches' = [caches EXCEPT
                  !.search    = cleanSearchCache(@, now),
                  !.embedding = limitEmbeddingCache(@),
                  !.sweeps    = @ + 1]
  /\ UNCHANGED << mcp, docs, boot, search, ingest, chunker, env, received, now, config, tools,
                  rateLimitTracking, conversationHistory, msgs, background,
                  admitLog, decisions, appended >>

\* The middleware records the exchange of a message of user u that was
\* answered.  Messages are numbered, so that every turn is told from the others.
AppendExchange(u) ==
  /\ received < MaxAppends
  /\ received' = received + 1
  /\ Record([IdleMsg EXCEPT !.from = u, !.content = received], <<LLMAnswer>>)
  /\ UNCHANGED << mcp, docs, boot, caches, search, ingest, chunker, env, now, config, tools, rateLimitTracking, msgs, background,
                  admitLog, decisions >>

(***************************************************************************)
(* VectorService.searchSimilarContent (src/services/vector.ts).            *)
(***************************************************************************)
\* the store interface: the rows of the corpus whose similarity is at least
\* the threshold, nearest first, at most match_count of them
matchRows(corpus, threshold, matchCount) ==
  LET hits == SelectSeq(Rows(corpus), LAMBDA row : row.similarity >= threshold)
  IN  IF Len(hits) > matchCount THEN SubSeq(hits, 1, matchCount) ELSE hits

\* what a source may answer to the query of the search s
StoreAnswers(s, source) ==
  IF env.store = "matching"
    THEN {matchRows(env.corpus[source], s.threshold, s.limit)}
    ELSE AnyRows

\* a failed source emptying `results`
pushRowsOrReset(results, error, rows, source) ==
  IF error
    THEN <<>>
    ELSE results \o [k \in DOMAIN rows |->
                       [ source     |-> source,
                         id         |-> rows[k].id,
                         similarity |-> rows[k].similarity ]]

\* the answer {data, error} of a source: an error is logged and nothing is
\* pushed; else every row is pushed to `results` with its similarity
pushRows(results, error, rows, source) ==
  IF error
    THEN results
    ELSE results \o [k \in DOMAIN rows |->
                       [ source     |-> source,
                         id         |-> rows[k].id,
                         similarity |-> rows[k].similarity ]]

\* Array.sort((a, b) => b.similarity - a.similarity): stable, by insertion
RECURSIVE insertBySimilarity(_, _)
insertBySimilarity(sorted, r) ==
  IF sorted = <<>>
    THEN <<r>>
    ELSE IF Head(sorted).similarity >= r.similarity
           THEN <<Head(sorted)>> \o insertBySimilarity(Tail(sorted), r)
           ELSE <<r>> \o sorted

RECURSIVE sortFrom(_, _, _)
sortFrom(results, k, sorted) ==
  IF k > Len(results)
    THEN sorted
    ELSE sortFrom(results, k + 1, insertBySimilarity(sorted, results[k]))

\* the results left in the order in which they were pushed
sortBySimilarityNot(results) == results

sortBySimilarity(results) == sortFrom(results, 1, <<>>)

slice(seq, n) == IF Len(seq) > n THEN SubSeq(seq, 1, n) ELSE seq

\* the results cut to the limit before they are sorted
sortedResultsCutFirst(results, limit) ==
  sortBySimilarity(slice(results, limit))

\* results.sort(...).slice(0, limit)
sortedResults(results, limit) == slice(sortBySimilarity(results), limit)

\* the stage after the embedding of the query, and after each source
NextStage(s, after) ==
  IF after = "embedding" /\ s.includeDocuments
    THEN "documents"
    ELSE IF after # "knowledge" /\ s.includeKnowledgeBase
           THEN "knowledge"
           ELSE "returned"

\* the search s moves to the stage after `after`: at the end the sorted
\* results are returned
Advance(s, after) ==
  LET stage == NextStage(s, after)
  IN  [s EXCEPT !.pc = stage,
                !.returned = IF stage = "returned"
                               THEN sortedResults(s.results, s.limit)
                               ELSE <<>>]

\* an embedding failure that is swallowed: the search goes on
embeddingStepSwallowed(s, ok) ==
  Advance([s EXCEPT !.embedded = @ \cup {s.query}], "embedding")

\* generateEmbedding returned (ok) or raised: a raise leaves the search
\* through its catch, which raises it again
embeddingStep(s, ok) ==
  IF ok
    THEN Advance([s EXCEPT !.embedded = @ \cup {s.query}], "embedding")
    ELSE [s EXCEPT !.pc = "raised"]

\* searchSimilarContent is called: the embedding interface is called for
\* the query
SearchStart(query, limit, threshold, includeDocuments, includeKnowledgeBase) ==
  /\ search.pc \in {"idle", "returned", "raised"}
  /\ search.calls < MaxSearches
  /\ search' = [IdleSearch EXCEPT
                  !.pc = "embedding",
                  !.query = query,
                  !.limit = limit,
                  !.threshold = threshold,
                  !.includeDocuments = includeDocuments,
                  !.includeKnowledgeBase = includeKnowledgeBase,
                  !.calls = search.calls + 1,
                  !.embedded = search.embedded,
                  !.embeddingCache = search.embeddingCache,
                  !.recalls = search.recalls +
                                (IF query \in search.embedded THEN 1 ELSE 0)]
  /\ UNCHANGED << mcp, docs, boot, caches, ingest, chunker, env, received, now, config, tools, rateLimitTracking,
                  conversationHistory, msgs, background, admitLog, decisions,
                  appended >>

EmbeddingAnswer(ok) ==
  /\ search.pc = "embedding"
  /\ search' = [embeddingStep(search, ok) EXCEPT
                  !.embedding = IF ok THEN "ok" ELSE "failed"]
  /\ UNCHANGED << mcp, docs, boot, caches, ingest, chunker, env, received, now, config, tools, rateLimitTracking,
                  conversationHistory, msgs, background, admitLog, decisions,
                  appended >>

\* the rpc match_document_chunks answers
DocumentsAnswer(error, rows) ==
  /\ search.pc = "documents"
  /\ rows \in StoreAnswers(search, "document")
  /\ search' = Advance([search EXCEPT
                          !.docAnswer = IF error THEN "error" ELSE "rows",
                          !.docRows = IF error THEN <<>> ELSE rows,
                          !.results = pushRows(@, error, rows, "document")],
                       "documents")
  /\ UNCHANGED << mcp, docs, boot, caches, ingest, chunker, env, received, now, config, tools, rateLimitTracking,
                  conversationHistory, msgs, background, admitLog, decisions,
                  appended >>

\* the rpc match_knowledge_base answers
KnowledgeAnswer(error, rows) ==
  /\ search.pc = "knowledge"
  /\ rows \in StoreAnswers(search, "knowledge_base")
  /\ search' = Advance([search EXCEPT
                          !.kbAnswer = IF error THEN "error" ELSE "rows",
                          !.kbRows = IF error THEN <<>> ELSE rows,
                          !.results = pushRows(@, error, rows, "knowledge_base")],
                       "knowledge")
  /\ UNCHANGED << mcp, docs, boot, caches, ingest, chunker, env, received, now, config, tools, rateLimitTracking,
                  conversationHistory, msgs, background, admitLog, decisions,
                  appended >>

\* clearConversationHistory(userId) of the management interface
ClearHistory(userId) ==
  /\ conversationHistory' = clearConversationHistory(conversationHistory, userId)
  /\ UNCHANGED << mcp, docs, boot, caches, search, ingest, chunker, env, received, now, config, tools, rateLimitTracking, msgs,
                  background, admitLog, decisions, appended >>

\* sequences of 1 to n of the tool names the LLM uses
Batches(n) == UNION {[1..k -> env.names] : k \in 1..n}

Core ==
  \/ \E m \in MsgIds, u \in env.users, text \in env.texts, media \in env.media :
       Receive(m, u, text, media)
  \/ \E m \in MsgIds : LLM1Answer(m)
  \/ \E m \in MsgIds, names \in Batches(MaxCalls) : LLM1ToolCalls(m, names)
  \/ \E m \in MsgIds : LLMRaise(m)
  \/ \E m \in MsgIds, i \in 1..MaxCalls, out \in env.outs : ToolSettle(m, i, out)
  \/ \E m \in MsgIds : LLM2Answer(m)

Timeouts ==
  \/ \E m \in MsgIds, i \in 1..MaxCalls : ToolTimeout(m, i)
  \/ \E b \in background, out \in env.outs : BackgroundSettle(b, out)

Retrieval ==
  \/ \E m \in MsgIds, result \in {"ok"} \cup InternalErrors : DocDone(m, result)
  \/ \E m \in MsgIds, n \in 0..1 : SearchDone(m, n)
  \/ \E m \in MsgIds : SearchRaise(m)
  \/ \E m \in MsgIds : RagLLMAnswer(m)
  \/ \E m \in MsgIds : RagLLMRaise(m)

Management ==
  \/ \E name \in LocalToolNames : EnableTool(name)
  \/ \E name \in LocalToolNames : DisableTool(name)

Next == Core \/ Timeouts \/ Retrieval

NextEngine == Core \/ Timeouts \/ Management

NextRate == Core \/ Tick

NextBoot ==
  \/ Construct
  \/ InitResume
  \/ \E m \in MsgIds, u \in env.users, text \in env.texts, media \in env.media :
       Deliver(m, u, text, media)
  \/ \E m \in MsgIds : LLM1Answer(m)
  \/ \E m \in MsgIds, names \in Batches(MaxCalls) : LLM1ToolCalls(m, names)
  \/ \E m \in MsgIds, i \in 1..MaxCalls, out \in env.outs : ToolSettle(m, i, out)
  \/ \E m \in MsgIds : LLM2Answer(m)
  \/ \E m \in MsgIds, n \in 0..1 : SearchDone(m, n)
  \/ \E m \in MsgIds : RagLLMAnswer(m)

NextDocument ==
  \/ \E kind \in {"pdf", "image", "other"}, n \in 0..MaxChunks : ProcessDocument(kind, n)
  \/ \E ok \in BOOLEAN, n \in 0..MaxChunks : ExtractAnswer(ok, n)
  \/ \E ok \in BOOLEAN : StoreDocumentAnswer(ok)
  \/ \E ok \in BOOLEAN : ChunkEmbeddingsAnswer(ok)
  \/ \E ok \in BOOLEAN : InsertChunksAnswer(ok)

NextCache ==
  \/ \E key \in {caches.inserted, caches.inserted + 1} : SetCachedEmbedding(key)
  \/ \E cacheKey \in SearchKeys : SetCachedSearch(cacheKey)
  \/ CleanCache
  \/ Tick

NextRegistry ==
  \/ Core
  \/ Timeouts
  \/ Management
  \/ \E name \in LocalToolNames, ok \in BOOLEAN : ReloadTool(name, ok)

NextHistory == \E u \in env.users : AppendExchange(u)

NextConcurrent == Core

NextHybrid ==
  \/ \E m \in MsgIds, u \in env.users, text \in env.texts :
       CallRAGResponse(m, u, text)
  \/ Core
  \/ Timeouts

NextSearch ==
  \/ \E query \in Queries, limit \in Limits, threshold \in Thresholds,
        includeDocuments \in BOOLEAN, includeKnowledgeBase \in BOOLEAN :
       SearchStart(query, limit, threshold, includeDocuments, includeKnowledgeBase)
  \/ \E ok \in BOOLEAN : EmbeddingAnswer(ok)
  \/ \E error \in BOOLEAN, rows \in AnyRows : DocumentsAnswer(error, rows)
  \/ \E error \in BOOLEAN, rows \in AnyRows : KnowledgeAnswer(error, rows)

NextMcp ==
  \/ McpInitialize
  \/ \E serverName \in env.servers :
       \/ ReconnectServer(serverName)
       \/ EnableServer(serverName)
       \/ DisableServer(serverName)
  \/ ConnectResume

NextStored ==
  \/ Core
  \/ \E u \in env.users : AppendExchange(u)
  \/ \E userId \in env.users \cup {NoUserId} : ClearHistory(userId)

NextClear ==
  \/ \E u \in env.users : AppendExchange(u)
  \/ \E userId \in env.users \cup {NoUserId} : ClearHistory(userId)

Spec == Init /\ [][Next]_vars

SpecEngine == InitEngine /\ [][NextEngine]_vars

SpecRate == InitRate /\ [][NextRate]_vars

SpecHistory == InitHistory /\ [][NextHistory]_vars

SpecHybrid == InitHybrid /\ [][NextHybrid]_vars

SpecBoot == InitBoot /\ [][NextBoot]_vars

SpecDocument == InitDocument /\ [][NextDocument]_vars

SpecCache == InitCache /\ [][NextCache]_vars

SpecRegistry == InitRegistry /\ [][NextRegistry]_vars

SpecConcurrent == InitConcurrent /\ [][NextConcurrent]_vars

SpecSearch == InitSearch /\ [][NextSearch]_vars

SpecSearchStore == InitSearchStore /\ [][NextSearch]_vars

(***************************************************************************)
(* EnhancedPDFService.processPDF (src/services/pdf-enhanced.ts).           *)
(***************************************************************************)
\* the suffix test of isPDFFile, on the file name in lower case
endsWithPdf(filename) ==
  CASE filename = "scan.PDF"  -> TRUE
    [] filename = "notes.txt" -> FALSE
    [] OTHER                  -> FALSE

isPDFFile(media) ==
  media.mimetype = "application/pdf" \/ endsWithPdf(media.filename)

\* the error the validation of processPDF throws, "none" when it passes
validation(media) ==
  IF media.type # "document"
    THEN "Media is not a document"
    ELSE IF ~isPDFFile(media)
           THEN "File is not a PDF"
           ELSE IF media.size > MAX_PDF_SIZE
                  THEN "PDF file too large. Maximum size: 10MB"
                  ELSE "none"

MAX_TEXT_LENGTH == 100000

TruncationMarker == "\n\n[Content truncated due to length...]"

ScannedNotice ==
  "[This appears to be a scanned PDF. Text extraction from images is not yet implemented.]"

\* lengths of the text a strategy extracts and cleans
TextLengths == {0, MAX_TEXT_LENGTH, MAX_TEXT_LENGTH + 1, 2 * MAX_TEXT_LENGTH}

\* messages of the errors a strategy raises
Errors ==
  { "Invalid PDF structure", "No password given",
    "JavaScript heap out of memory", "Unexpected end of input" }

\* the words getEnhancedErrorMessage looks for that the message, in lower
\* case, includes
includes(message) ==
  CASE message = "Invalid PDF structure"         -> {"invalid pdf", "pdf structure"}
    [] message = "No password given"             -> {"password"}
    [] message = "JavaScript heap out of memory" -> {"memory", "heap"}
    [] OTHER                                     -> {}

\* the first line of the message getEnhancedErrorMessage returns
getEnhancedErrorMessage(message) ==
  LET words == includes(message)
  IN  IF words \cap {"invalid pdf", "pdf structure", "bad xref"} # {}
        THEN "PDF file appears to be corrupted or has compatibility issues."
        ELSE IF words \cap {"password", "encrypted"} # {}
               THEN "PDF is password-protected or encrypted."
               ELSE IF words \cap {"memory", "heap"} # {}
                      THEN "PDF is too complex or large to process."
                      ELSE "PDF processing failed: " \o message

\* the outer catch raising the error again
failedRaising(s, message) == [s EXCEPT !.pc = "raised"]

\* the outer catch: the structured result of a failed extraction
failed(s, message) ==
  [s EXCEPT !.pc = "returned",
            !.result = [ success       |-> FALSE,
                         text          |-> "",
                         length        |-> 0,
                         truncated     |-> FALSE,
                         parsingMethod |-> "failed",
                         error         |-> getEnhancedErrorMessage(message) ]]

\* a strategy is called
attempt(s, strategy) ==
  [s EXCEPT !.pc = strategy, !.attempted = Append(@, strategy)]

\* the parsingMethod each strategy writes to the metadata of its result
parsingMethodOf(strategy) ==
  CASE strategy = "PDF.js"           -> "PDF.js"
    [] strategy = "pdf-parse"        -> "pdf-parse fallback"
    [] strategy = "image conversion" -> "image conversion"

\* the text a strategy returns for a cleaned text of n characters, as its
\* length and whether it ends with the truncation marker: processPDFWithPDFJS
\* truncates, the pdf-parse strategy returns the cleaned text, the image
\* conversion returns a notice
truncate(n) ==
  IF n > MAX_TEXT_LENGTH
    THEN [length |-> MAX_TEXT_LENGTH + Len(TruncationMarker), truncated |-> TRUE]
    ELSE [length |-> n, truncated |-> FALSE]

finalText(strategy, n) ==
  CASE strategy = "PDF.js"    -> truncate(n)
    [] strategy = "pdf-parse" -> [length |-> n, truncated |-> FALSE]
    [] OTHER                  -> [length |-> Len(ScannedNotice), truncated |-> FALSE]

\* the result of a later strategy carrying the method of the first
succeededAsFirst(s, strategy) ==
  [s EXCEPT !.pc = "returned",
            !.result = [ success       |-> TRUE,
                         text          |-> "extracted",
                         length        |-> finalText(strategy, s.cleaned).length,
                         truncated     |-> finalText(strategy, s.cleaned).truncated,
                         parsingMethod |-> parsingMethodOf(s.attempted[1]),
                         error         |-> "none" ]]

\* a strategy returned: processPDF returns its result
succeeded(s, strategy) ==
  [s EXCEPT !.pc = "returned",
            !.result = [ success       |-> TRUE,
                         text          |-> "extracted",
                         length        |-> finalText(strategy, s.cleaned).length,
                         truncated     |-> finalText(strategy, s.cleaned).truncated,
                         parsingMethod |-> parsingMethodOf(strategy),
                         error         |-> "none" ]]

\* the legacy format PDFService.processPDF converts the result to
legacyResult(result) ==
  [ success       |-> result.success,
    text          |-> result.text,
    length        |-> result.length,
    truncated     |-> result.truncated,
    parsingMethod |-> result.parsingMethod,
    error         |-> result.error ]

\* a strategy raised: its catch warns and the next strategy is called, the
\* image conversion only when it is switched on; after the last one
\* processPDF throws into its outer catch
afterRaise(s, strategy, message) ==
  LET r == [s EXCEPT !.raised = @ \cup {strategy},
                     !.warned = @ \cup {message}]
  IN  IF strategy = "PDF.js"
        THEN attempt(r, "pdf-parse")
        ELSE IF strategy = "pdf-parse" /\ env.imageConversion
               THEN attempt(r, "image conversion")
               ELSE failed(r, "All PDF processing strategies failed")

\* processPDF is called: the validation, then strategy 1
ProcessPDF(media) ==
  /\ ingest.pc \in {"idle", "returned", "raised"}
  /\ ingest.calls < MaxIngests
  /\ LET s == [IdleIngest EXCEPT !.media = media, !.calls = ingest.calls + 1]
     IN  ingest' = IF validation(media) # "none"
                     THEN failed(s, validation(media))
                     ELSE attempt(s, "PDF.js")
  /\ UNCHANGED << mcp, docs, boot, caches, search, chunker, env, received, now, config, tools, rateLimitTracking,
                  conversationHistory, msgs, background, admitLog, decisions,
                  appended >>

\* processPDFWithPDFJS settles: pages that raise are skipped inside it, a
\* raise of the document itself or of its metadata leaves it
PdfjsAnswer(outcome, n) ==
  /\ ingest.pc = "PDF.js"
  /\ ingest' = IF outcome \in Errors
                 THEN afterRaise(ingest, "PDF.js", outcome)
                 ELSE succeeded([ingest EXCEPT !.cleaned = n], "PDF.js")
  /\ UNCHANGED << mcp, docs, boot, caches, search, chunker, env, received, now, config, tools, rateLimitTracking,
                  conversationHistory, msgs, background, admitLog, decisions,
                  appended >>

\* pdf-parse settles
PdfParseAnswer(outcome, n) ==
  /\ ingest.pc = "pdf-parse"
  /\ ingest' = IF outcome = "ok"
                 THEN succeeded([ingest EXCEPT !.cleaned = n], "pdf-parse")
                 ELSE afterRaise(ingest, "pdf-parse", outcome)
  /\ UNCHANGED << mcp, docs, boot, caches, search, chunker, env, received, now, config, tools, rateLimitTracking,
                  conversationHistory, msgs, background, admitLog, decisions,
                  appended >>

\* processPDFAsImages settles
ImagesAnswer(outcome) ==
  /\ ingest.pc = "image conversion"
  /\ ingest' = IF outcome = "ok"
                 THEN succeeded(ingest, "image conversion")
                 ELSE afterRaise(ingest, "image conversion", outcome)
  /\ UNCHANGED << mcp, docs, boot, caches, search, chunker, env, received, now, config, tools, rateLimitTracking,
                  conversationHistory, msgs, background, admitLog, decisions,
                  appended >>

NextIngest ==
  \/ \E media \in Media : ProcessPDF(media)
  \/ \E outcome \in {"ok", "page errors"} \cup Errors, n \in TextLengths :
       PdfjsAnswer(outcome, n)
  \/ \E outcome \in {"ok"} \cup Errors, n \in TextLengths :
       PdfParseAnswer(outcome, n)
  \/ \E outcome \in {"ok"} \cup Errors : ImagesAnswer(outcome)

SpecIngest == InitIngest /\ [][NextIngest]_vars

(***************************************************************************)
(* EnhancedPDFService.createChunks (src/services/pdf-enhanced.ts).         *)
(***************************************************************************)
IsSpace(c) == c \in {" ", "\n"}

\* String.prototype.lastIndexOf(c, fromIndex), on indices from 0; -1 when
\* the character is not found
lastIndexOf(text, c, fromIndex) ==
  LET found == {i \in 0..(Len(text) - 1) : i <= fromIndex /\ text[i + 1] = c}
  IN  IF found = {} THEN -1 ELSE CHOOSE i \in found : \A k \in found : k <= i

\* String.prototype.substring(start, end), on indices from 0
substring(text, start, end) ==
  LET e == IF end > Len(text) THEN Len(text) ELSE end
  IN  IF start >= e THEN <<>> ELSE SubSeq(text, start + 1, e)

\* the number of whitespace characters at the front of a text
RECURSIVE leading(_)
leading(text) ==
  IF text = <<>> \/ ~IsSpace(Head(text)) THEN 0 ELSE 1 + leading(Tail(text))

RECURSIVE trimEnd(_)
trimEnd(text) ==
  IF text = <<>> \/ ~IsSpace(text[Len(text)])
    THEN text
    ELSE trimEnd(SubSeq(text, 1, Len(text) - 1))

\* String.prototype.trim()
trim(text) == trimEnd(SubSeq(text, leading(text) + 1, Len(text)))

\* the end of the chunk that starts at `start`: moved to a sentence or
\* paragraph boundary in the second half of the chunk
chunkEnd(text, chunkSize, start) ==
  LET end == start + chunkSize
      sentenceEnd == lastIndexOf(text, ".", end)
      paragraphEnd == lastIndexOf(text, "\n", end)
      breakPoint == IF sentenceEnd > paragraphEnd THEN sentenceEnd ELSE paragraphEnd
  IN  IF end < Len(text) /\ 2 * breakPoint > 2 * start + chunkSize
        THEN breakPoint + 1
        ELSE end

\* the next chunk starting after the end of the last one
nextStartSkipping(end, overlap) == end + overlap

\* start = end - overlap
nextStart(end, overlap) == end - overlap

\* the passes of the while loop from `start` on
RECURSIVE chunkSpans(_, _, _, _)
chunkSpans(text, chunkSize, overlap, start) ==
  IF start < Len(text)
    THEN LET end == chunkEnd(text, chunkSize, start)
         IN  << [start |-> start, end |-> end] >>
               \o chunkSpans(text, chunkSize, overlap, nextStart(end, overlap))
    ELSE <<>>

createChunks(text, chunkSize, overlap) ==
  IF Len(text) <= chunkSize
    THEN << text >>
    ELSE LET spans == chunkSpans(text, chunkSize, overlap, 0)
             chunks == [i \in DOMAIN spans |->
                          trim(substring(text, spans[i].start, spans[i].end))]
         IN  SelectSeq(chunks, LAMBDA chunk : Len(chunk) > 0)

CreateChunks(text, chunkSize, overlap) ==
  /\ chunker.pc = "idle"
  /\ chunker' = [ pc        |-> "returned",
                  text      |-> text,
                  chunkSize |-> chunkSize,
                  overlap   |-> overlap,
                  spans     |-> IF Len(text) <= chunkSize
                                  THEN <<>>
                                  ELSE chunkSpans(text, chunkSize, overlap, 0),
                  chunks    |-> createChunks(text, chunkSize, overlap) ]
  /\ UNCHANGED << mcp, docs, boot, caches, search, ingest, env, received, now, config, tools,
                  rateLimitTracking, conversationHistory, msgs, background,
                  admitLog, decisions, appended >>

NextChunks == CreateChunks(env.text, env.chunkSize, env.overlap)

\* `start` at the top of the while loop, after the passes made so far
loopStart(c) ==
  IF c.spans = <<>>
    THEN 0
    ELSE nextStart(c.spans[Len(c.spans)].end, c.overlap)

\* createChunks is called: a text of at most chunkSize characters is
\* returned at once, any other enters the loop with start = 0
EnterChunks(text, chunkSize, overlap) ==
  /\ chunker.pc = "idle"
  /\ chunker' = [ pc        |-> IF Len(text) <= chunkSize THEN "returned" ELSE "loop",
                  text      |-> text,
                  chunkSize |-> chunkSize,
                  overlap   |-> overlap,
                  spans     |-> <<>>,
                  chunks    |-> IF Len(text) <= chunkSize THEN << text >> ELSE <<>> ]
  /\ UNCHANGED << mcp, docs, boot, caches, search, ingest, env, received, now, config, tools,
                  rateLimitTracking, conversationHistory, msgs, background,
                  admitLog, decisions, appended >>

\* one pass of the while loop: a chunk is pushed
ChunkPass ==
  /\ chunker.pc = "loop"
  /\ loopStart(chunker) < Len(chunker.text)
  /\ Len(chunker.spans) < MaxPasses
  /\ LET start == loopStart(chunker)
         end == chunkEnd(chunker.text, chunker.chunkSize, start)
     IN  chunker' = [chunker EXCEPT
                       !.spans  = Append(@, [start |-> start, end |-> end]),
                       !.chunks = Append(@, trim(substring(chunker.text, start, end)))]
  /\ UNCHANGED << mcp, docs, boot, caches, search, ingest, env, received, now, config, tools,
                  rateLimitTracking, conversationHistory, msgs, background,
                  admitLog, decisions, appended >>

\* the loop is left: the chunks that are not empty are returned
ChunkReturn ==
  /\ chunker.pc = "loop"
  /\ ~(loopStart(chunker) < Len(chunker.text))
  /\ chunker' = [chunker EXCEPT
                   !.pc     = "returned",
                   !.chunks = SelectSeq(@, LAMBDA chunk : Len(chunk) > 0)]
  /\ UNCHANGED << mcp, docs, boot, caches, search, ingest, env, received, now, config, tools,
                  rateLimitTracking, conversationHistory, msgs, background,
                  admitLog, decisions, appended >>

NextChunkLoop ==
  \/ EnterChunks(env.text, env.chunkSize, env.overlap)
  \/ ChunkPass
  \/ ChunkReturn

SpecChunkLoop == InitChunkLoop /\ [][NextChunkLoop]_vars

SpecChunks == InitChunks /\ [][NextChunks]_vars

SpecStored == InitStored /\ [][NextStored]_vars

SpecMcp == InitMcp /\ [][NextMcp]_vars

SpecClear == InitHistory /\ [][NextClear]_vars

(***************************************************************************)
(* Properties.                                                             *)
(***************************************************************************)
\* a call of an error class: no registry has the tool, the tool is disabled,
\* the caller is over the rate limit, or execute raised
ErrorClass(call) ==
  \/ call.kind \in {"notfound", "disabled", "ratelimited"}
  \/ call.st = "settled" /\ call.out = "raise"

\* C1: for every batch in which each call names a tool of no registry, names
\* a disabled tool, is over its rate limit or has its execute raise,
\* executeToolCalls returns without raising, and the entry of each such call
\* has success = false.
C1_ErrorCallsReturnFailures ==
  \A m \in MsgIds :
    LET r == msgs[m]
    IN  (r.engine # "none" /\ \A i \in DOMAIN r.calls : ErrorClass(r.calls[i]))
          => /\ r.engine = "returned"
             /\ DOMAIN r.results = DOMAIN r.calls
             /\ \A i \in DOMAIN r.calls : ~r.results[i].success

\* a batch was returned whose first call was over the rate limit and whose
\* second call is an MCP tool that raised
C1_RateLimitedAndRaiseReturned ==
  \E m \in MsgIds :
    /\ msgs[m].engine = "returned"
    /\ Len(msgs[m].calls) = 2
    /\ msgs[m].calls[1].kind = "ratelimited"
    /\ msgs[m].calls[2].kind = "mcp"
    /\ msgs[m].calls[2].out = "raise"
    /\ ~msgs[m].results[1].success
    /\ ~msgs[m].results[2].success

\* C2: when a dispatched call does not settle within the 30 s timeout,
\* executeToolCalls still returns a result array: the entry of that call is a
\* failure, the entries of the other calls are their own results.
C2_TimeoutReturnsFailureEntry ==
  \A m \in MsgIds :
    LET r == msgs[m]
    IN  (\E i \in DOMAIN r.calls : r.calls[i].st = "timedout")
          => /\ r.engine = "returned"
             /\ DOMAIN r.results = DOMAIN r.calls
             /\ \A i \in DOMAIN r.calls :
                  IF r.calls[i].st = "timedout"
                    THEN ~r.results[i].success
                    ELSE r.results[i] = ToolCallResult(r.calls[i])

\* C3: the array executeToolCalls returns has the length of the input and its
\* i-th entry carries the toolCallId of the i-th input call, whatever the
\* order in which the tools complete.
C3_ResultsFollowInputOrder ==
  \A m \in MsgIds :
    LET r == msgs[m]
    IN  r.engine = "returned"
          => /\ Len(r.results) = Len(r.calls)
             /\ \A i \in DOMAIN r.calls : r.results[i].toolCallId = r.calls[i].id

\* a batch of two was returned whose second call completed before its first
C3_CompletedInReverseOrder ==
  \E m \in MsgIds :
    /\ msgs[m].engine = "returned"
    /\ msgs[m].order = <<2, 1>>
    /\ msgs[m].calls[1].kind = "local"
    /\ msgs[m].calls[2].kind = "local"

\* C4: a call to a rate-limited tool is admitted if and only if fewer than
\* maxCalls calls of the same caller to the same tool were admitted during the
\* preceding windowMs (calls of other callers and to other tools are not
\* counted); so no interval of width windowMs holds more than maxCalls
\* admitted calls of one (tool, caller) pair, also for the calls of one batch.
C4_AdmittedIffUnderLimit ==
  /\ \A d \in decisions : d.admitted <=> d.prior < RateMaxCalls
  /\ \A key \in DOMAIN admitLog :
       \A i \in DOMAIN admitLog[key] :
         Cardinality({ j \in DOMAIN admitLog[key] :
                         /\ admitLog[key][i] <= admitLog[key][j]
                         /\ admitLog[key][j] - admitLog[key][i] < RateWindowMs })
           <= RateMaxCalls

\* one batch held an admitted and a refused call of the same caller to the
\* same tool, while the other caller had calls to that tool admitted
C4_BatchSplitAtLimit ==
  \E d1 \in decisions, d2 \in decisions :
    /\ d1.tool = d2.tool /\ d1.user = d2.user /\ d1.time = d2.time
    /\ d1.admitted /\ ~d2.admitted
    /\ \E u \in Users :
         /\ u # d1.user
         /\ Len(admitLog[<<d1.tool, u>>]) > 0

\* the content is one of the fixed fallback strings
IsFallback(content) == Len(content) = 1 /\ content[1] \in Fallbacks

\* C5: on the tool-augmented path the LLM interface is called a second time
\* if and only if the first response holds a tool call; the second call
\* starts only after executeToolCalls returned, and no third call is made.
C5_SecondCallIffToolCalls ==
  \A m \in MsgIds :
    LET r == msgs[m]
    IN  /\ r.llmCalls <= 2
        /\ r.llm2 \in {"none", "returned"}
        /\ (r.pc = "done" /\ r.path \in {"tool", "direct"})
             => (r.llmCalls = 2 <=> Len(r.calls) > 0)

\* C6: a processed message takes one path, by precedence: a meta-query is
\* answered with the static summary without a call of the LLM interface,
\* also when a tool detector matches; else a message a tool detector matches
\* takes the tool-augmented path; else, with retrieval configured and enabled,
\* the retrieval-augmented path; else the direct path.
C6_OnePathByPrecedence ==
  \A m \in MsgIds :
    LET r == msgs[m]
        onGenerate == /\ r.pc \in {"llm1", "tools", "llm2", "done"}
                      /\ r.llmCalls >= 1
                      /\ ~r.usedRag /\ r.doc = "none"
        onRetrieval == /\ r.pc \in {"doc", "search", "ragllm", "done"}
                       /\ r.engine = "none" /\ r.calls = <<>>
    IN  (r.pc # "idle" /\ shouldProcessMessage(r.content)) =>
          IF isToolQuery(r.content)
            THEN r.path = "meta" /\ r.pc = "done" /\ r.llmCalls = 0
                 /\ r.resp = <<StaticSummary>>
            ELSE IF needsToolSupport(r.content)
                   THEN r.path = "tool" /\ onGenerate
                   ELSE IF config.hasRag /\ config.enableRAG
                          THEN r.path = "rag" /\ onRetrieval
                          ELSE r.path = "direct" /\ onGenerate

\* a meta-query that a tool detector matches too was answered with the
\* static summary
C6_MetaQueryWithToolPattern ==
  \E m \in MsgIds :
    /\ msgs[m].pc = "done"
    /\ isToolQuery(msgs[m].content)
    /\ needsToolSupport(msgs[m].content)
    /\ msgs[m].resp = <<StaticSummary>>

\* C7: when the LLM interface, the embedding interface or the retrieval
\* engine raises while a response is generated, the middleware does not raise
\* to the transport and the message is answered with a fixed fallback string.
C7_RaiseAnsweredWithFallback ==
  \A m \in MsgIds :
    LET r == msgs[m]
    IN  (r.pc = "done" /\ (r.failure \in {"llm", "search"} \/ r.doc = ErrEmbedding))
          => ~r.raised /\ IsFallback(r.resp)

\* C8: a text sent to the user is an answer of the LLM with its annotations
\* or a fixed fallback string; the message text of an internal error is no
\* part of it.
C8_NoInternalErrorText ==
  \A m \in MsgIds :
    \A k \in DOMAIN msgs[m].resp : msgs[m].resp[k] \notin InternalErrors

\* C9: when the LLM interface raises and the user is given a fallback string,
\* the history of the user after the message is the history before it.
C9_FailureAppendsNothing ==
  \A m \in MsgIds :
    LET r == msgs[m]
    IN  (r.pc = "done" /\ r.failure = "llm")
          => conversationHistory[r.from] = r.before

\* C10: after any sequence of appends the history of a user holds at most
\* maxHistoryLength turns, and they are the most recent turns appended for
\* that user, in the order of their appending.
C10_HistoryIsRecentSuffix ==
  \A u \in Users :
    LET h == conversationHistory[u]
        a == appended[u]
    IN  /\ Len(h) <= maxHistoryLength
        /\ Len(h) = IF Len(a) < maxHistoryLength THEN Len(a) ELSE maxHistoryLength
        /\ \A i \in DOMAIN h : h[i] = a[Len(a) - Len(h) + i]

\* more turns were appended for a user than the history holds
C10_OldestTurnsDiscarded ==
  \E u \in Users :
    /\ Len(appended[u]) > maxHistoryLength
    /\ Len(conversationHistory[u]) = maxHistoryLength

\* C11: reading the history of a user returns the retained turns of the
\* user in chronological order: every turn the history retains (at most
\* maxHistoryLength) is handed to the LLM.
C11_ReadReturnsRetainedTurns ==
  \A u \in Users :
    getConversationHistory(conversationHistory[u]) = conversationHistory[u]

\* C12: appending to a history (trimming included) or clearing it leaves the
\* history of every other user unchanged; clear(userId) empties the history
\* of that user only, clear() without argument empties all of them.
C12_OtherHistoriesUnchanged ==
  [][ /\ \A u \in Users :
           AppendExchange(u) =>
             \A v \in Users \ {u} : conversationHistory'[v] = conversationHistory[v]
      /\ \A u \in Users :
           ClearHistory(u) =>
             /\ conversationHistory'[u] = <<>>
             /\ \A v \in Users \ {u} :
                  conversationHistory'[v] = conversationHistory[v]
      /\ ClearHistory(NoUserId) =>
           \A v \in Users : conversationHistory'[v] = <<>> ]_vars

\* the history of one user was cleared while that of another user, trimmed
\* to its bound, was kept
C12_ClearedBesideTrimmed ==
  \E u \in Users, v \in Users :
    /\ u # v
    /\ Len(appended[u]) > 0
    /\ conversationHistory[u] = <<>>
    /\ Len(appended[v]) > maxHistoryLength
    /\ Len(conversationHistory[v]) = maxHistoryLength

\* C13: when two messages of one user are handled concurrently, their
\* exchanges are appended to the history of the user in the order in which
\* the middleware received the messages, whatever the order of completion.
C13_AppendedInReceiptOrder ==
  \A m1 \in MsgIds, m2 \in MsgIds :
    LET r1 == msgs[m1]
        r2 == msgs[m2]
        a == appended[r1.from]
        pos(c) == CHOOSE i \in DOMAIN a : a[i] = Turn("user", c)
    IN  ( /\ r1.pc = "done" /\ r2.pc = "done"
          /\ r1.from = r2.from
          /\ r1.seq < r2.seq
          /\ r1.content # r2.content
          /\ r1.resp # NoResp /\ r2.resp # NoResp
          /\ r1.path \in {"tool", "direct"} /\ r2.path \in {"tool", "direct"} )
        => pos(r1.content) < pos(r2.content)

\* C14: whenever the first LLM response of the tool-augmented path holds a
\* tool call, the text returned for the message carries the tool-usage
\* summary (each distinct tool name once, with the number of its calls).
C14_ToolSummaryWhenToolsUsed ==
  \A m \in MsgIds :
    LET r == msgs[m]
    IN  ( /\ r.pc = "done"
          /\ r.path \in {"tool", "direct"}
          /\ Len(r.calls) > 0
          /\ r.failure = "none" )
        => \E k \in DOMAIN r.resp : r.resp[k] = ToolsUsedNote

\* the sequence is in non-increasing order of similarity
NonIncreasing(seq) ==
  \A i \in DOMAIN seq, j \in DOMAIN seq :
    i < j => seq[i].similarity >= seq[j].similarity

\* the elements of a sequence
Elements(seq) == {seq[i] : i \in DOMAIN seq}

\* the rows as entries of their source
Entries(rows, source) ==
  { [source |-> source, id |-> rows[k].id, similarity |-> rows[k].similarity] :
      k \in DOMAIN rows }

\* `returned` is the n nearest entries of the pool, nearest first
IsTopOf(returned, pool, n) ==
  /\ Len(returned) = IF Cardinality(pool) < n THEN Cardinality(pool) ELSE n
  /\ NonIncreasing(returned)
  /\ Elements(returned) \subseteq pool
  /\ Cardinality(Elements(returned)) = Len(returned)
  /\ \A p \in pool \ Elements(returned), r \in Elements(returned) :
       p.similarity <= r.similarity

\* C15: the results a search returns are in non-increasing order of
\* similarity and at most `limit` many, whatever the two sources answer.
C15_SortedAndWithinLimit ==
  search.pc = "returned" =>
    /\ NonIncreasing(search.returned)
    /\ Len(search.returned) <= search.limit

\* a search returned whose sources had answered more rows than the limit,
\* out of order
C15_UnsortedRowsOverLimit ==
  /\ search.pc = "returned"
  /\ Len(search.results) > search.limit
  /\ ~NonIncreasing(search.results)
  /\ Len(search.returned) = search.limit

\* the entries of the corpora that match the query of the search, for the
\* sources that were queried and answered
Matches ==
  LET of(source, answer) ==
        IF answer = "rows"
          THEN { e \in Entries(Rows(env.corpus[source]), source) :
                   e.similarity >= search.threshold }
          ELSE {}
  IN  of("document", search.docAnswer) \cup of("knowledge_base", search.kbAnswer)

\* C16: every result of a search has a similarity of at least the threshold,
\* and the results are the `limit` nearest of the document-chunk and
\* knowledge-base matches together: threshold 0.7 and limit 3 over entries of
\* 0.81 and 0.62 give the 0.81 entry alone, and threshold 1.0 over a corpus
\* without an entry of similarity 1.0 gives nothing.
C16_NearestMatchesAboveThreshold ==
  search.pc = "returned" =>
    /\ \A i \in DOMAIN search.returned :
         search.returned[i].similarity >= search.threshold
    /\ IsTopOf(search.returned, Matches, search.limit)
    /\ ( /\ search.threshold = 70 /\ search.limit = 3
         /\ search.kbAnswer = "rows" /\ search.docAnswer # "rows"
         /\ env.corpus.knowledge_base = <<81, 62>> )
       => search.returned =
            << [source |-> "knowledge_base", id |-> 1, similarity |-> 81] >>
    /\ ( /\ search.threshold = 100
         /\ \A i \in DOMAIN env.corpus.document : env.corpus.document[i] # 100
         /\ \A i \in DOMAIN env.corpus.knowledge_base :
              env.corpus.knowledge_base[i] # 100 )
       => search.returned = <<>>

\* both sources held matches and the limit cut the merged results: the
\* nearest entry came from the source queried last
C16_MergedAcrossSources ==
  /\ search.pc = "returned"
  /\ search.docAnswer = "rows" /\ search.kbAnswer = "rows"
  /\ Cardinality(Matches) > search.limit
  /\ Len(search.returned) = search.limit
  /\ search.returned[1].source = "knowledge_base"
  /\ \E e \in Matches : e.source = "document"

\* the rows the sources that answered handed over
Answered ==
  Entries(search.docRows, "document") \cup Entries(search.kbRows, "knowledge_base")

\* C17: when the document-chunk query or the knowledge-base query fails,
\* the search still returns without raising, and its results are those of
\* the other source, sorted and cut to the limit.
C17_FailedSourceCountsAsEmpty ==
  (search.docAnswer = "error" \/ search.kbAnswer = "error") =>
    /\ search.pc # "raised"
    /\ search.pc = "returned" =>
         IsTopOf(search.returned, Answered, search.limit)

\* a search returned the rows of the document chunks after the query of the
\* knowledge base had failed
C17_KnowledgeBaseFailedAfterRows ==
  /\ search.pc = "returned"
  /\ search.docAnswer = "rows" /\ Len(search.docRows) = 2
  /\ search.kbAnswer = "error"
  /\ Len(search.returned) >= 1

\* C18: when the embedding interface fails for the query, the search raises
\* to its caller, returns no results and queries neither store.
C18_EmbeddingFailureRaises ==
  search.embedding = "failed" =>
    /\ search.pc = "raised"
    /\ search.returned = <<>>
    /\ search.docAnswer = "none" /\ search.kbAnswer = "none"

\* a search over both sources raised after the embedding interface failed
C18_RaisedBeforeQueries ==
  /\ search.pc = "raised"
  /\ search.embedding = "failed"
  /\ search.includeDocuments /\ search.includeKnowledgeBase

\* C19: the embedding of a query is looked up in the embedding cache; the
\* embedding interface is called on a miss only and its result is cached,
\* so a second search of the same text does not call the interface again.
C19_EmbeddingCachedPerQuery ==
  /\ search.embedded \subseteq search.embeddingCache
  /\ search.recalls = 0

\* the strategies of the extraction, in their order
Strategies == << "PDF.js", "pdf-parse", "image conversion" >>

\* C20: the strategies of the extraction are attempted in the order PDF.js,
\* pdf-parse, image conversion; a strategy is attempted only after every
\* earlier one raised, the image conversion only when it is switched on; and
\* the parsingMethod of a successful result names the strategy that
\* succeeded: pdf-parse when PDF.js raised and pdf-parse succeeded.
C20_CascadeInOrder ==
  /\ Len(ingest.attempted) <= Len(Strategies)
  /\ \A i \in DOMAIN ingest.attempted :
       /\ ingest.attempted[i] = Strategies[i]
       /\ \A j \in 1..(i - 1) : Strategies[j] \in ingest.raised
  /\ (\E i \in DOMAIN ingest.attempted :
        ingest.attempted[i] = "image conversion") => env.imageConversion
  /\ ingest.result.success =>
       LET last == ingest.attempted[Len(ingest.attempted)]
       IN  /\ last \notin ingest.raised
           /\ ingest.result.parsingMethod =
                (CASE last = "PDF.js"           -> "PDF.js"
                   [] last = "pdf-parse"        -> "pdf-parse fallback"
                   [] last = "image conversion" -> "image conversion")
  /\ (ingest.result.success /\ ingest.raised = {"PDF.js"}) =>
       ingest.result.parsingMethod = "pdf-parse fallback"

\* PDF.js raised and pdf-parse returned the text of the document
C20_SecondStrategySucceeded ==
  /\ ingest.pc = "returned"
  /\ ingest.attempted = << "PDF.js", "pdf-parse" >>
  /\ ingest.raised = {"PDF.js"}
  /\ ingest.result.success
  /\ ingest.result.parsingMethod = "pdf-parse fallback"

\* every strategy that was attempted raised and none is left to attempt
AllStrategiesFailed ==
  /\ ingest.pc = "returned"
  /\ ingest.attempted # <<>>
  /\ \A i \in DOMAIN ingest.attempted : ingest.attempted[i] \in ingest.raised

\* C21: when every strategy failed, the diagnostic of the failure follows
\* the symptom of the errors of the strategies: the password diagnostic for
\* a password-protected file, the corrupt-structure diagnostic for a corrupt
\* one, the resource diagnostic for an exhausted memory.
C21_DiagnosticBySymptom ==
  AllStrategiesFailed =>
    /\ ingest.warned = {"No password given"} =>
         ingest.result.error = "PDF is password-protected or encrypted."
    /\ ingest.warned = {"Invalid PDF structure"} =>
         ingest.result.error =
           "PDF file appears to be corrupted or has compatibility issues."
    /\ ingest.warned = {"JavaScript heap out of memory"} =>
         ingest.result.error = "PDF is too complex or large to process."

\* C22: processPDF never raises: for the wrong media type, a file that is no
\* PDF, an oversized file and the failure of every strategy it returns a
\* result with success = false, an empty text and an error string, and so
\* does the legacy format made of it.
C22_FailureIsReturned ==
  /\ ingest.pc # "raised"
  /\ (ingest.pc = "returned"
        /\ (validation(ingest.media) # "none" \/ AllStrategiesFailed)) =>
       \A r \in {ingest.result, legacyResult(ingest.result)} :
         /\ r.success = FALSE
         /\ r.text = ""
         /\ r.error \notin {"none", ""}

\* a PDF whose three strategies all raised
C22_ThreeStrategiesRaised ==
  /\ AllStrategiesFailed
  /\ Len(ingest.attempted) = 3
  /\ validation(ingest.media) = "none"
  /\ ~ingest.result.success

\* the characters of a text that are no whitespace, in their order
NonSpace(text) == SelectSeq(text, LAMBDA c : ~IsSpace(c))

RECURSIVE Concat(_)
Concat(seqs) == IF seqs = <<>> THEN <<>> ELSE Head(seqs) \o Concat(Tail(seqs))

\* the passes of the loop whose chunk was returned, in their order
KeptSpans ==
  SelectSeq(chunker.spans,
            LAMBDA span :
              trim(substring(chunker.text, span.start, span.end)) # <<>>)

\* the k-th chunk returned without the characters it shares with the chunk
\* returned before it: those that lie before the end of that chunk in the text
WithoutOverlap(k) ==
  LET chunk == chunker.chunks[k]
      span == KeptSpans[k]
      from == span.start
                + leading(substring(chunker.text, span.start, span.end))
      shared == IF k = 1 THEN 0 ELSE KeptSpans[k - 1].end - from
      drop == IF shared < 0 THEN 0
              ELSE IF shared > Len(chunk) THEN Len(chunk) ELSE shared
  IN  SubSeq(chunk, drop + 1, Len(chunk))

\* the chunks returned, concatenated with their overlaps removed
Reconstructed ==
  IF chunker.spans = <<>>
    THEN Concat(chunker.chunks)
    ELSE Concat([k \in DOMAIN chunker.chunks |-> WithoutOverlap(k)])

\* C23: the chunks createChunks returns, concatenated after the overlap of
\* each chunk with its predecessor is removed, give the text back up to the
\* whitespace trimmed at the edges of the chunks: no character is lost and
\* none is duplicated.
C23_ChunksReconstructText ==
  chunker.pc = "returned" =>
    /\ chunker.spans # <<>> => Len(chunker.chunks) = Len(KeptSpans)
    /\ NonSpace(Reconstructed) = NonSpace(chunker.text)
    /\ Len(Reconstructed) <= Len(chunker.text)

\* three chunks were returned, one of them cut at a sentence or paragraph
\* boundary, and whitespace was trimmed at an edge
C23_ThreeChunksCutAndTrimmed ==
  /\ chunker.pc = "returned"
  /\ Len(chunker.chunks) = 3
  /\ \E i \in DOMAIN chunker.spans :
       chunker.spans[i].end # chunker.spans[i].start + chunker.chunkSize
  /\ Len(Reconstructed) < Len(chunker.text)
  /\ NonSpace(chunker.text) # <<>>

\* C24: the pipeline checks a rate limit per user before the LLM: once
\* BOT_RATE_LIMIT_MAX_REQUESTS messages of a user have been processed inside
\* the window, further messages of that user are not passed on to the LLM.
C24_RateLimitedBeforeLLM ==
  \A u \in Users :
    Cardinality({m \in MsgIds : /\ msgs[m].pc # "idle"
                                /\ msgs[m].from = u
                                /\ msgs[m].llmCalls >= 1})
      <= BotRateLimitMaxRequests

\* C25: executeToolCalls completes only after every call of the batch has
\* settled or reached its timeout: when it completes, no dispatch of the
\* batch is still pending.
C25_CompletesAfterEveryCall ==
  \A m \in MsgIds :
    msgs[m].engine \in {"returned", "raised"} =>
      \A i \in DOMAIN msgs[m].calls : msgs[m].calls[i].st # "pending"

\* C26: all calls of a batch are started before the result of any of them is
\* awaited: while the batch runs every call has been started, and a call
\* that is still running can complete whatever the other calls do.
C26_AllCallsStarted ==
  \A m \in MsgIds :
    msgs[m].pc = "tools" =>
      \A i \in DOMAIN msgs[m].calls :
        /\ msgs[m].calls[i].st \in {"pending", "settled", "timedout"}
        /\ msgs[m].calls[i].st = "pending" =>
             \E out \in env.outs : ENABLED ToolSettle(m, i, out)

\* the second call of a batch has completed while the first is still running
C26_SecondCompletedFirstRunning ==
  \E m \in MsgIds :
    /\ msgs[m].pc = "tools"
    /\ Len(msgs[m].calls) = 2
    /\ msgs[m].calls[1].st = "pending"
    /\ msgs[m].calls[2].st = "settled"
    /\ msgs[m].calls[2].kind = "local"
    /\ msgs[m].order = <<2>>

\* usageCount + errorCount of the registry entry of a tool
Counted(reg, name) == reg[name].usageCount + reg[name].errorCount

\* C27: an execution that outlives the 30 s timeout is not cancelled: when
\* the engine gives up, every call of the batch that has not settled goes on
\* running, it can still complete, and its completion moves a counter of its
\* tool while no message gets its result.
C27_AbandonedStillRuns ==
  [][ /\ \A m \in MsgIds :
           (msgs[m].engine # "raised" /\ msgs'[m].engine = "raised") =>
             \A i \in DOMAIN msgs'[m].calls :
               msgs'[m].calls[i].st \in {"pending", "timedout"} =>
                 \E b \in background' :
                   /\ b.m = m /\ b.id = msgs'[m].calls[i].id
                   /\ b.name = msgs'[m].calls[i].name
      /\ \A b \in background \ background' :
           /\ msgs' = msgs
           /\ (b.kind = "local" /\ b.name \in DOMAIN tools) =>
                Counted(tools', b.name) = Counted(tools, b.name) + 1
      /\ \A m \in MsgIds : msgs[m].engine = "raised" => msgs'[m].results = <<>>
      /\ \A b \in background : \E out \in env.outs : ENABLED BackgroundSettle(b, out)
    ]_vars

\* an execution abandoned by a timeout has completed after the message was
\* answered, and the counter of its tool has moved
C27_CompletedAfterAnswer ==
  \E m \in MsgIds, n \in LocalToolNames :
    /\ received = 1
    /\ msgs[m].pc = "done"
    /\ msgs[m].engine = "raised"
    /\ msgs[m].results = <<>>
    /\ Len(msgs[m].calls) = 1
    /\ msgs[m].calls[1].name = n
    /\ background = {}
    /\ Counted(tools, n) >= 1

\* the calls of tool `name` that are admitted and running in the handlers
Running(ms, name) ==
  { <<m, i>> \in MsgIds \X (1..MaxCalls) :
      /\ ms[m].pc = "tools"
      /\ i \in DOMAIN ms[m].calls
      /\ ms[m].calls[i].kind = "local"
      /\ ms[m].calls[i].name = name
      /\ ms[m].calls[i].st = "pending" }

C29_RagPathRetrievesThenOneCall ==
  \A m \in MsgIds :
    (msgs[m].path = "rag" /\ msgs[m].pc \in {"ragllm", "done"}
       /\ msgs[m].failure # "search") =>
      /\ msgs[m].usedRag
      /\ msgs[m].llmCalls = 1
      /\ msgs[m].calls = <<>>

\* C30: on the hybrid path the tool-augmented flow runs first and retrieval
\* is attempted afterwards: the provenance of the sources found is appended
\* to the answer, and a failure of the retrieval leaves the answer of the
\* tool flow as it is.
C30_HybridRetrievesAfterTools ==
  \A m \in MsgIds :
    (msgs[m].path = "hybrid" /\ msgs[m].pc = "done"
       /\ msgs[m].failure = "none" /\ config.hasRag) =>
      msgs[m].usedRag

\* C31: through every registry operation the enabled flag of a registered
\* tool changes only in a step that is enableTool or disableTool of that
\* tool.
C31_EnabledChangedOnlyByEnableDisable ==
  [][\A n \in DOMAIN tools :
       tools'[n].enabled # tools[n].enabled =>
         tools' \in {enableTool(tools, n), disableTool(tools, n)}]_vars

\* C32: the text of every successful extraction, whichever strategy
\* produced it, is at most MAX_TEXT_LENGTH characters plus the truncation
\* marker, and a cleaned text longer than MAX_TEXT_LENGTH is returned cut and
\* ending with the marker.
C32_TextWithinMaximumLength ==
  (ingest.pc = "returned" /\ ingest.result.success) =>
    /\ ingest.result.length <= MAX_TEXT_LENGTH + Len(TruncationMarker)
    /\ ingest.cleaned > MAX_TEXT_LENGTH => ingest.result.truncated

\* the positions of the sentence and paragraph breaks inside the window
\* [start, start + chunkSize) of the text chunked
BreaksInWindow(start) ==
  { j \in start..(start + chunker.chunkSize - 1) :
      j < Len(chunker.text) /\ chunker.text[j + 1] \in {".", "\n"} }

\* the end the chunk of the window at `start` is to have: just after the
\* last break of the window when it lies in its latter half, the raw offset
\* otherwise
PreferredEnd(start) ==
  LET breaks == BreaksInWindow(start)
      last == CHOOSE j \in breaks : \A k \in breaks : k <= j
  IN  IF breaks # {} /\ 2 * last > 2 * start + chunker.chunkSize
        THEN last + 1
        ELSE start + chunker.chunkSize

\* C33: a chunk whose window does not reach the end of the text ends just
\* after the last full stop or line break inside the window when that break
\* lies in the latter half of the window, and at start + chunkSize otherwise;
\* the next chunk starts overlap characters before that end; no chunk is
\* longer than chunkSize.
C33_ChunkEndsAtBreakInWindow ==
  (chunker.pc = "returned" /\ chunker.spans # <<>>) =>
    /\ \A i \in DOMAIN chunker.spans :
         LET span == chunker.spans[i]
         IN  /\ span.start + chunker.chunkSize < Len(chunker.text) =>
                  span.end = PreferredEnd(span.start)
             /\ i < Len(chunker.spans) =>
                  chunker.spans[i + 1].start = span.end - chunker.overlap
    /\ \A k \in DOMAIN chunker.chunks :
         Len(chunker.chunks[k]) <= chunker.chunkSize

\* C34: a sweep that finds more than 1000 entries in the embedding cache
\* leaves exactly the 800 entries inserted last and removes all older ones; a
\* sweep that finds at most 1000 entries removes no embedding entry.
C34_SweepKeepsMostRecent ==
  [][caches'.sweeps # caches.sweeps =>
       LET keys == caches.embedding
           kept == caches'.embedding
       IN  IF Len(keys) > EmbeddingCacheCap
             THEN /\ Len(kept) = EmbeddingCacheKeep
                  /\ \A i \in DOMAIN keys :
                       (\E k \in DOMAIN kept : kept[k] = keys[i])
                         <=> i > Len(keys) - EmbeddingCacheKeep
             ELSE kept = keys]_vars

\* a sweep found more than 1000 entries and left 800 of them
C34_SweptOverCap ==
  /\ caches.sweeps > 0
  /\ caches.inserted > EmbeddingCacheCap
  /\ Len(caches.embedding) = EmbeddingCacheKeep
  /\ caches.embedding[1] > 1

\* C35: createChunks terminates for every text and every chunkSize and
\* overlap with 0 <= overlap < chunkSize: from each pass of its loop to the
\* next the start offset strictly increases.
C35_StartStrictlyIncreases ==
  [][(chunker.pc = "loop" /\ chunker'.pc = "loop") =>
       loopStart(chunker') > loopStart(chunker)]_vars

RowsOfLast ==
  [ document |-> docs.calls \in docs.documents,
    chunks   |-> {c.chunk_index : c \in {x \in docs.chunks : x.document_id = docs.calls}} ]

\* C37: when processDocument returns success = false, neither the row of the
\* document nor any of its chunks is in the store; when it returns
\* success = true, the row and all of its chunks are stored.
C37_StoredIffSucceeded ==
  docs.pc = "returned" =>
    IF docs.result.success
      THEN /\ RowsOfLast.document
           /\ RowsOfLast.chunks = 0..(docs.nchunks - 1)
           /\ docs.result.chunksCreated = docs.nchunks
      ELSE /\ ~RowsOfLast.document
           /\ RowsOfLast.chunks = {}

\* C38: the hybrid path is reachable from the router: a message that
\* matches a tool-relevant pattern, handled while retrieval is configured and
\* enabled, is handled by generateHybridResponse.
C38_RouterReachesHybrid ==
  \A m \in MsgIds :
    (/\ msgs[m].pc # "idle"
     /\ msgs[m].path \notin {"skipped", "meta"}
     /\ config.hasRag /\ config.enableRAG
     /\ needsToolSupport(msgs[m].content)) =>
      msgs[m].path = "hybrid"

\* C39: every stored history is a sequence of complete exchanges: through
\* every append, trim and clear it has even length and alternates user and
\* assistant turns beginning with a user turn; an answer stores one exchange,
\* two turns, and none of the tool-result turns built while the message was
\* answered.
C39_HistoryOfCompleteExchanges ==
  [][\A u \in Users :
       LET before == Len(conversationHistory[u])
           history == conversationHistory'[u]
       IN  /\ Len(history) \in
                {0, before,
                 IF before + 2 > maxHistoryLength
                   THEN maxHistoryLength ELSE before + 2}
           /\ Len(history) % 2 = 0
           /\ \A i \in DOMAIN history :
                history[i].role = IF i % 2 = 1 THEN "user" ELSE "assistant"]_vars

\* a history was trimmed to its maximum after a message of its user had been
\* answered from tool results
C39_TrimmedAfterToolCalls ==
  /\ Len(conversationHistory["u1"]) = maxHistoryLength
  /\ Len(appended["u1"]) > maxHistoryLength
  /\ \E m \in MsgIds : msgs[m].pc = "done" /\ msgs[m].results # <<>>

\* C40: whenever no connection is under way, every tool getAvailableTools of
\* the MCP service returns belongs to a server that is enabled and connected
C40_ToolsOfEnabledConnectedServers ==
  mcp.connecting = <<>> =>
    \A tool \in mcpAvailableTools(mcp) :
      /\ mcp.servers[category(tool)]
      /\ category(tool) \in mcp.connectedServers

====
